---- MODULE Spec2Model ----
(***************************************************************************)
(* Sieve: pipeline orchestration engine, batch executor and concurrency    *)
(* guard, and thread detection.  The state machines of this module:        *)
(*   SpecGuard    - scheduler.py / app.py : the "is running" flags and the *)
(*                  scheduled and manual pipeline triggers                 *)
(*   SpecPipeline - pipeline.py : run_pipeline, stage by stage             *)
(*   SpecBatch    - summarize/embed/score/entities/topics *_batch loops    *)
(*   SpecThreads  - threads.py / db.py : detect_threads and the thread     *)
(*                  store, over successive runs                            *)
(*   SpecStages   - db.py + the *_batch functions : the enrichment fields  *)
(*                  of the articles over successive stage batches          *)
(*   SpecScore    - score.py : parsing, composite, tier and convergence of *)
(*                  one model response, and the row stored from it         *)
(*   SpecDigest   - scheduler.py / app.py : the scheduled digest job and   *)
(*                  the manual digest trigger                              *)
(*   SpecComponents - threads.py : _find_connected_components, step by     *)
(*                  step over a symmetric adjacency dict                   *)
(***************************************************************************)
EXTENDS Integers, Sequences, FiniteSets, TLC

VARIABLES
    pipeline_running,   \* scheduler._pipeline_running
    job_state,          \* app.job_state: running, type, error
    spc,                \* position of each scheduled invocation
    sout,               \* what run_pipeline did in each scheduled invocation
    mpc,                \* position of each POST /pipeline request / job thread
    jsonl_path,         \* get_setting("jsonl_path") is configured
    has_on_progress,    \* run_pipeline was given an on_progress callback
    pl_pc,              \* position of run_pipeline
    result,             \* the report dict of run_pipeline
    started,            \* stages whose try block was entered, in order
    called,             \* stages whose stage function was invoked, in order
    raised,             \* per stage: where an exception was raised, if any
    events,             \* the calls of run_pipeline's on_progress, in order
    cb_swallowed,       \* batch stages in which a forwarded on_progress call raised
    b_stage,            \* which *_batch function runs
    b_on_progress,      \* the batch was given an on_progress callback
    b_pc,               \* position of the batch function
    total,              \* len(articles)
    b_result,           \* the result dict of the batch
    consecutive_failures,
    outcomes,           \* error_type returned for each processed item
    persisted,          \* article ids written back, in order
    progress,           \* (current, total) of each on_progress call
    cb_raised,          \* some on_progress call of the batch raised
    t_pc,               \* position of detect_threads
    t_run,              \* number of detect_threads runs started
    t_articles,         \* articles table: embedded_at / entities_extracted_at set
    t_ws,               \* ids returned by get_articles_with_entities_in_range
    t_graph,            \* the adjacency dict built by the current run
    t_links,            \* which entities / embedding neighbours the articles have
    thread_members,     \* article_threads: member set of thread id 1, 2, ...
    t_snapshot,         \* existing_thread_articles of the current run
    t_order,            \* row order in which the snapshot's threads are iterated
    t_pending,          \* qualifying clusters not yet processed, in list order
    t_cur,              \* cluster being written and the thread it goes to
    t_result,           \* the result dict of detect_threads
    t_components,       \* components found in the current run
    store_at_start,     \* thread_members when the current run started
    t_unchanged,        \* the run finds the articles of the previous run, unchanged
    t_log,              \* per processed cluster: decision, store before/after, name
    art,                \* articles table: which enrichment fields are set
    s_pc,               \* position of the stage batch in progress
    s_stage,            \* which *_batch function runs
    s_items,            \* its work items not yet processed, in list order
    s_cf,               \* its consecutive_failures
    s_prior,            \* articles this stage's batch had written before this call
    s_writes,           \* per stage and article: number of write-backs so far
    s_runs,             \* number of stage batches and single-article requests started
    sc_raw,             \* the seven integers of the model's JSON response
    sc_pc,              \* position of score_article / score_batch on the article
    sc_result,          \* the ScoreResult
    sc_row,             \* the score columns of the article's row
    digest_running,     \* scheduler.py: _digest_running
    dspc,               \* position of each scheduled digest invocation
    dmpc,               \* position of each POST /digest/generate request
    cc_graph,           \* _find_connected_components: the graph argument
    cc_pc,              \* its position
    cc_k,               \* index of "for node in graph"
    cc_visited,         \* visited
    cc_component,       \* component of the traversal in progress
    cc_queue,           \* queue
    cc_components       \* components

guardVars == <<pipeline_running, job_state, spc, sout, mpc>>
pipeVars == <<jsonl_path, has_on_progress, pl_pc, result, started, called, raised,
              events, cb_swallowed>>
batchVars == <<b_stage, b_on_progress, b_pc, total, b_result,
               consecutive_failures, outcomes, persisted, progress, cb_raised>>
threadVars == <<t_pc, t_run, t_articles, t_ws, t_graph, t_links, thread_members, t_snapshot, t_order,
                t_pending, t_cur, t_result, t_components, store_at_start,
                t_unchanged, t_log>>
stageVars == <<art, s_pc, s_stage, s_items, s_cf, s_prior, s_writes, s_runs>>
scoreVars == <<sc_raw, sc_pc, sc_result, sc_row>>
digestVars == <<digest_running, dspc, dmpc>>
ccVars == <<cc_graph, cc_pc, cc_k, cc_visited, cc_component, cc_queue, cc_components>>
vars == <<guardVars, pipeVars, batchVars, threadVars, stageVars, scoreVars,
          digestVars, ccVars>>

----------------------------------------------------------------------------
(* Bounds *)
NumSched == 2       \* concurrent invocations of the scheduled pipeline job
NumManual == 2      \* concurrent POST /pipeline requests
MaxItems == 7       \* largest work-item list of a batch
NumArticles == 8    \* article ids 1..NumArticles; a higher id is more recent
MaxRuns == 3        \* successive runs of detect_threads
NumNodes == 4       \* nodes of the graphs given to _find_connected_components
NumStored == 2      \* rows of the articles table seen by the stage batches
MaxWork == 1        \* work items of a batch stage inside run_pipeline
MaxBatches == 4     \* successive stage batches

SchedInv == 1..NumSched
ManualReq == 1..NumManual

\* What a call of run_pipeline can do, seen from its caller.
RunOutcomes == {"ok", "failed", "raised"}

----------------------------------------------------------------------------
(* Idle values of the state machines that a specification does not drive *)
GuardIdle ==
    /\ pipeline_running = FALSE
    /\ job_state = [running |-> FALSE, type |-> "None", error |-> "None"]
    /\ spc = [s \in SchedInv |-> "idle"]
    /\ sout = [s \in SchedInv |-> "none"]
    /\ mpc = [m \in ManualReq |-> "idle"]

----------------------------------------------------------------------------
(* scheduler.py : _run_scheduled_pipeline *)

\* with _pipeline_lock: return _pipeline_running
is_pipeline_running == pipeline_running

\* Mutant: the skipping return goes through the finally block.
SchedTryStart_SkipClears(s) ==
    /\ spc[s] = "idle"
    /\ IF pipeline_running
         THEN /\ spc' = [spc EXCEPT ![s] = "skipped"]
              /\ pipeline_running' = FALSE
         ELSE /\ pipeline_running' = TRUE
              /\ spc' = [spc EXCEPT ![s] = "in_pipeline"]
    /\ UNCHANGED <<job_state, sout, mpc>>

\* Mutant: the flag is set without being tested.
SchedTryStart_NoCheck(s) ==
    /\ spc[s] = "idle"
    /\ pipeline_running' = TRUE
    /\ spc' = [spc EXCEPT ![s] = "in_pipeline"]
    /\ UNCHANGED <<job_state, sout, mpc>>

\* with _pipeline_lock: if _pipeline_running: return; _pipeline_running = True
SchedTryStart(s) ==
    /\ spc[s] = "idle"
    /\ IF pipeline_running
         THEN /\ spc' = [spc EXCEPT ![s] = "skipped"]
              /\ UNCHANGED pipeline_running
         ELSE /\ pipeline_running' = TRUE
              /\ spc' = [spc EXCEPT ![s] = "in_pipeline"]
    /\ UNCHANGED <<job_state, sout, mpc>>

\* try: result = run_pipeline() ... except Exception: log
SchedRunPipeline(s) ==
    /\ spc[s] = "in_pipeline"
    /\ \E o \in RunOutcomes : sout' = [sout EXCEPT ![s] = o]
    /\ spc' = [spc EXCEPT ![s] = "finally"]
    /\ UNCHANGED <<pipeline_running, job_state, mpc>>

\* Mutant: the flag is cleared on the normal path only, not in a finally.
SchedFinish_NoFinally(s) ==
    /\ spc[s] = "finally"
    /\ sout[s] # "raised"
    /\ pipeline_running' = FALSE
    /\ spc' = [spc EXCEPT ![s] = "done"]
    /\ UNCHANGED <<job_state, sout, mpc>>

\* finally: with _pipeline_lock: _pipeline_running = False
SchedFinish(s) ==
    /\ spc[s] = "finally"
    /\ pipeline_running' = FALSE
    /\ spc' = [spc EXCEPT ![s] = "done"]
    /\ UNCHANGED <<job_state, sout, mpc>>

\* The cron trigger fires the job again after an invocation has returned.
SchedFire(s) ==
    /\ spc[s] \in {"skipped", "done"}
    /\ spc' = [spc EXCEPT ![s] = "idle"]
    /\ sout' = [sout EXCEPT ![s] = "none"]
    /\ UNCHANGED <<pipeline_running, job_state, mpc>>

----------------------------------------------------------------------------
(* app.py : trigger_pipeline and run_pipeline_job *)

\* with job_lock: if job_state["running"]: return 409
TriggerCheckJob(m) ==
    /\ mpc[m] = "idle"
    /\ mpc' = [mpc EXCEPT ![m] = IF job_state.running THEN "rejected" ELSE "check_sched"]
    /\ UNCHANGED <<pipeline_running, job_state, spc, sout>>

\* if is_pipeline_running(): return 409
TriggerCheckSched(m) ==
    /\ mpc[m] = "check_sched"
    /\ mpc' = [mpc EXCEPT ![m] = IF is_pipeline_running THEN "rejected" ELSE "spawn"]
    /\ UNCHANGED <<pipeline_running, job_state, spc, sout>>

\* Thread(target=run_pipeline_job).start(); the thread's first block:
\* with job_lock: job_state["running"] = True; type = "pipeline"; error = None
JobStart(m) ==
    /\ mpc[m] = "spawn"
    /\ job_state' = [job_state EXCEPT !.running = TRUE, !.type = "pipeline",
                                      !.error = "None"]
    /\ mpc' = [mpc EXCEPT ![m] = "in_pipeline"]
    /\ UNCHANGED <<pipeline_running, spc, sout>>

\* result = run_pipeline(on_progress); then, under job_lock, the error of a
\* failed report, or str(e) of an exception, is stored in job_state["error"].
JobRunPipeline(m) ==
    /\ mpc[m] = "in_pipeline"
    /\ \E o \in RunOutcomes :
         job_state' = [job_state EXCEPT !.error = IF o = "ok" THEN @ ELSE "error"]
    /\ mpc' = [mpc EXCEPT ![m] = "finally"]
    /\ UNCHANGED <<pipeline_running, spc, sout>>

\* finally: with job_lock: job_state["running"] = False
JobFinish(m) ==
    /\ mpc[m] = "finally"
    /\ job_state' = [job_state EXCEPT !.running = FALSE]
    /\ mpc' = [mpc EXCEPT ![m] = "done"]
    /\ UNCHANGED <<pipeline_running, spc, sout>>

\* A later POST /pipeline request.
TriggerAgain(m) ==
    /\ mpc[m] \in {"rejected", "done"}
    /\ mpc' = [mpc EXCEPT ![m] = "idle"]
    /\ UNCHANGED <<pipeline_running, job_state, spc, sout>>

----------------------------------------------------------------------------
(* scheduler.py : _run_scheduled_digest *)

DigestIdle ==
    /\ digest_running = FALSE
    /\ dspc = [s \in SchedInv |-> "idle"]
    /\ dmpc = [m \in ManualReq |-> "idle"]

\* with _digest_lock: if _digest_running: return; _digest_running = True
DigestTryStart(s) ==
    /\ dspc[s] = "idle"
    /\ IF digest_running
         THEN /\ dspc' = [dspc EXCEPT ![s] = "skipped"]
              /\ UNCHANGED digest_running
         ELSE /\ digest_running' = TRUE
              /\ dspc' = [dspc EXCEPT ![s] = "in_digest"]
    /\ UNCHANGED <<job_state, dmpc>>

\* try: result = generate_digest(); the result or the exception is logged
DigestRun(s) ==
    /\ dspc[s] = "in_digest"
    /\ dspc' = [dspc EXCEPT ![s] = "finally"]
    /\ UNCHANGED <<job_state, digest_running, dmpc>>

\* finally: with _digest_lock: _digest_running = False
DigestFinish(s) ==
    /\ dspc[s] = "finally"
    /\ digest_running' = FALSE
    /\ dspc' = [dspc EXCEPT ![s] = "done"]
    /\ UNCHANGED <<job_state, dmpc>>

\* The cron trigger fires the digest job again after an invocation returned.
DigestFire(s) ==
    /\ dspc[s] \in {"skipped", "done"}
    /\ dspc' = [dspc EXCEPT ![s] = "idle"]
    /\ UNCHANGED <<job_state, digest_running, dmpc>>

----------------------------------------------------------------------------
(* app.py : trigger_digest and run_digest_job *)

\* with job_lock: if job_state["running"]: return 409
\* otherwise Thread(target=run_digest_job).start()
TriggerDigest(m) ==
    /\ dmpc[m] = "idle"
    /\ dmpc' = [dmpc EXCEPT ![m] = IF job_state.running THEN "rejected" ELSE "spawn"]
    /\ UNCHANGED <<job_state, digest_running, dspc>>

\* with job_lock: job_state["running"] = True; type = "digest"; error = None
DigestJobStart(m) ==
    /\ dmpc[m] = "spawn"
    /\ job_state' = [job_state EXCEPT !.running = TRUE, !.type = "digest",
                                      !.error = "None"]
    /\ dmpc' = [dmpc EXCEPT ![m] = "in_digest"]
    /\ UNCHANGED <<digest_running, dspc>>

\* result = generate_digest(); then, under job_lock, the error of a failed
\* result, or str(e) of an exception, is stored in job_state["error"].
DigestJobRun(m) ==
    /\ dmpc[m] = "in_digest"
    /\ \E o \in RunOutcomes :
         job_state' = [job_state EXCEPT !.error = IF o = "ok" THEN @ ELSE "error"]
    /\ dmpc' = [dmpc EXCEPT ![m] = "finally"]
    /\ UNCHANGED <<digest_running, dspc>>

\* finally: with job_lock: job_state["running"] = False
DigestJobFinish(m) ==
    /\ dmpc[m] = "finally"
    /\ job_state' = [job_state EXCEPT !.running = FALSE]
    /\ dmpc' = [dmpc EXCEPT ![m] = "done"]
    /\ UNCHANGED <<digest_running, dspc>>

\* A later POST /digest/generate request.
TriggerDigestAgain(m) ==
    /\ dmpc[m] \in {"rejected", "done"}
    /\ dmpc' = [dmpc EXCEPT ![m] = "idle"]
    /\ UNCHANGED <<job_state, digest_running, dspc>>

----------------------------------------------------------------------------
(* pipeline.py : run_pipeline *)

StageOrder == <<"ingest", "compress", "summarize", "embed", "score",
                "entities", "topics", "threads">>
Stages == {StageOrder[k] : k \in 1..Len(StageOrder)}
FatalStages == {"ingest", "compress", "summarize", "embed", "score"}
AdvisoryStages == {"entities", "topics", "threads"}
BatchStages == {"summarize", "embed", "score", "entities", "topics"}

StageIndex(st) == CHOOSE k \in 1..Len(StageOrder) : StageOrder[k] = st

\* Mutant: the Score block is missing from the sequence of stages.
NextPc_SkipsScore(st) ==
    IF StageIndex(st) = Len(StageOrder) THEN "finish"
    ELSE IF st = "embed" THEN "entities"
    ELSE StageOrder[StageIndex(st) + 1]

\* The statement that follows the try block of stage st.
NextPc(st) ==
    IF StageIndex(st) = Len(StageOrder) THEN "finish"
    ELSE StageOrder[StageIndex(st) + 1]

\* result = {"success": True, ..., every slot None, "error": None}
InitialReport ==
    [success |-> TRUE, error |-> "None", finished_at |-> FALSE,
     slots |-> [st \in Stages |-> "None"]]

PipelineIdle ==
    /\ jsonl_path = FALSE
    /\ has_on_progress = FALSE
    /\ pl_pc = "start"
    /\ result = InitialReport
    /\ started = <<>>
    /\ called = <<>>
    /\ raised = [st \in Stages |-> "no"]
    /\ events = <<>>
    /\ cb_swallowed = {}

\* Mutant: the missing path is recorded but the run goes on to Ingest.
PipelineStart_NoReturn ==
    /\ pl_pc = "start"
    /\ result' = IF jsonl_path THEN result
                 ELSE [result EXCEPT !.success = FALSE, !.error = "no_jsonl_path"]
    /\ pl_pc' = "ingest"
    /\ UNCHANGED <<jsonl_path, has_on_progress, started, called, raised, events, cb_swallowed>>

\* jsonl_path = get_setting("jsonl_path"); if not jsonl_path: ... return result
PipelineStart ==
    /\ pl_pc = "start"
    /\ IF jsonl_path
         THEN /\ pl_pc' = "ingest"
              /\ UNCHANGED result
         ELSE /\ result' = [result EXCEPT !.success = FALSE, !.error = "no_jsonl_path"]
              /\ pl_pc' = "returned"
    /\ UNCHANGED <<jsonl_path, has_on_progress, started, called, raised, events, cb_swallowed>>

\* except Exception of a stage 1-5: success = False, error, finished_at
FatalExcept(r, st) ==
    [r EXCEPT !.success = FALSE, !.error = st, !.finished_at = TRUE]

\* Mutant: the handler of a fatal stage forgets its "return result".
AfterFatalExcept_NoReturn(st) == NextPc(st)

\* ... return result
AfterFatalExcept(st) == "returned"

\* Mutant: the handler of an advisory stage also fills the report's error.
AdvisoryExcept_SetsError(r, st) ==
    [r EXCEPT !.slots[st] = "error", !.error = st]

\* Mutant: the handler of an advisory stage also marks the run as failed.
AdvisoryExcept_Fails(r, st) ==
    [r EXCEPT !.slots[st] = "error", !.success = FALSE]

\* except Exception of a stage 6-8: result[stage] = {"error": str(e)}
AdvisoryExcept(r, st) == [r EXCEPT !.slots[st] = "error"]

\* Where an exception can come from in a stage that reports its own progress:
\* the on_progress call before the stage function, the stage function, or the
\* on_progress call after it.  "no" is the run without exception.
InlineEvents == {"no", "cb_before", "stage", "cb_after"}

\* The on_progress calls of a stage that reports its own progress:
\* (st, 0, 1) before the stage function and (st, 1, 1) after it returned.
InlineReports(st, ev, hasCb) ==
    IF ~hasCb THEN <<>>
    ELSE <<[label |-> st, at |-> "before", current |-> 0, total |-> 1]>>
           \o (IF ev \in {"no", "cb_after"}
                THEN <<[label |-> st, at |-> "after", current |-> 1, total |-> 1]>>
                ELSE <<>>)

\* Stages 1-2: on_progress(st, 0, 1); result[st] = f(); on_progress(st, 1, 1)
InlineFatalStage(st) ==
    /\ st \in {"ingest", "compress"}
    /\ pl_pc = st
    /\ started' = Append(started, st)
    /\ \E ev \in InlineEvents :
         /\ ev \in {"cb_before", "cb_after"} => has_on_progress
         /\ raised' = [raised EXCEPT ![st] = ev]
         /\ called' = IF ev = "cb_before" THEN called ELSE Append(called, st)
         /\ CASE ev = "no" ->
                   /\ result' = [result EXCEPT !.slots[st] = "ok"]
                   /\ pl_pc' = NextPc(st)
              [] ev = "cb_after" ->
                   /\ result' = FatalExcept([result EXCEPT !.slots[st] = "ok"], st)
                   /\ pl_pc' = AfterFatalExcept(st)
              [] OTHER ->
                   /\ result' = FatalExcept(result, st)
                   /\ pl_pc' = AfterFatalExcept(st)
         /\ events' = events \o InlineReports(st, ev, has_on_progress)
    /\ UNCHANGED <<jsonl_path, has_on_progress, cb_swallowed>>

\* What a *_batch call can do, seen from run_pipeline: return a result with
\* stopped_early false or true, or raise.
BatchEvents == {"no", "stopped", "stage"}

\* The work items of a batch and the number of its on_progress(i + 1, total)
\* calls: one per item when the loop ends, fewer when it is left by a break
\* (which precedes the call) or by an exception; none without work items.
BatchRuns(ev) ==
    {p \in (0..MaxWork) \X (0..MaxWork) :
        /\ p[2] <= p[1]
        /\ ev = "no" => p[2] = p[1]
        /\ ev = "stopped" => p[2] < p[1]}

\* def x_progress(current, total): if on_progress: on_progress(st, current, total, ...)
ForwardedReports(st, run, hasCb) ==
    IF ~hasCb THEN <<>>
    ELSE [i \in 1..run[2] |-> [label |-> st, at |-> "during", current |-> i, total |-> run[1]]]

\* What the forwarded calls add to the state: the calls, and the stage when
\* one of them raised and the batch's "except Exception" logged it.
Forwarding(st, ev) ==
    \E run \in BatchRuns(ev), cbRaises \in BOOLEAN :
        /\ cbRaises => (has_on_progress /\ run[2] >= 1)
        /\ events' = events \o ForwardedReports(st, run, has_on_progress)
        /\ cb_swallowed' = IF cbRaises THEN cb_swallowed \cup {st} ELSE cb_swallowed

\* Mutant: a batch result with stopped_early is treated like an exception.
BatchFatalStage_StopAborts(st) ==
    /\ st \in {"summarize", "embed", "score"}
    /\ pl_pc = st
    /\ started' = Append(started, st)
    /\ called' = Append(called, st)
    /\ \E ev \in BatchEvents :
         /\ raised' = [raised EXCEPT ![st] = IF ev = "stage" THEN "stage" ELSE "no"]
         /\ Forwarding(st, ev)
         /\ CASE ev = "stage" ->
                   /\ result' = FatalExcept(result, st)
                   /\ pl_pc' = AfterFatalExcept(st)
              [] ev = "stopped" ->
                   /\ result' = FatalExcept([result EXCEPT !.slots[st] = "stopped"], st)
                   /\ pl_pc' = AfterFatalExcept(st)
              [] OTHER ->
                   /\ result' = [result EXCEPT !.slots[st] = "ok"]
                   /\ pl_pc' = NextPc(st)
    /\ UNCHANGED <<jsonl_path, has_on_progress>>

\* Stages 3-5: result[st] = x_batch(on_progress=wrapper); stopped_early is
\* only logged.
BatchFatalStage(st) ==
    /\ st \in {"summarize", "embed", "score"}
    /\ pl_pc = st
    /\ started' = Append(started, st)
    /\ called' = Append(called, st)
    /\ \E ev \in BatchEvents :
         /\ raised' = [raised EXCEPT ![st] = IF ev = "stage" THEN "stage" ELSE "no"]
         /\ Forwarding(st, ev)
         /\ IF ev = "stage"
              THEN /\ result' = FatalExcept(result, st)
                   /\ pl_pc' = AfterFatalExcept(st)
              ELSE /\ result' = [result EXCEPT
                                   !.slots[st] = IF ev = "stopped" THEN "stopped" ELSE "ok"]
                   /\ pl_pc' = NextPc(st)
    /\ UNCHANGED <<jsonl_path, has_on_progress>>

\* Stages 6-7: the same call, but the handler records the error and goes on.
BatchAdvisoryStage(st) ==
    /\ st \in {"entities", "topics"}
    /\ pl_pc = st
    /\ started' = Append(started, st)
    /\ called' = Append(called, st)
    /\ \E ev \in BatchEvents :
         /\ raised' = [raised EXCEPT ![st] = IF ev = "stage" THEN "stage" ELSE "no"]
         /\ Forwarding(st, ev)
         /\ result' = IF ev = "stage" THEN AdvisoryExcept(result, st)
                      ELSE [result EXCEPT
                              !.slots[st] = IF ev = "stopped" THEN "stopped" ELSE "ok"]
    /\ pl_pc' = NextPc(st)
    /\ UNCHANGED <<jsonl_path, has_on_progress>>

\* Mutant: an exception of the second on_progress call of stage 8 is not
\* handled by the stage's except block, the slot keeps detect_threads' result.
ThreadsStage_KeepsResult ==
    /\ pl_pc = "threads"
    /\ started' = Append(started, "threads")
    /\ \E ev \in InlineEvents :
         /\ ev \in {"cb_before", "cb_after"} => has_on_progress
         /\ raised' = [raised EXCEPT !["threads"] = ev]
         /\ called' = IF ev = "cb_before" THEN called ELSE Append(called, "threads")
         /\ result' = IF ev \in {"no", "cb_after"}
                        THEN [result EXCEPT !.slots["threads"] = "ok"]
                      ELSE AdvisoryExcept(result, "threads")
         /\ events' = events \o InlineReports("threads", ev, has_on_progress)
    /\ pl_pc' = NextPc("threads")
    /\ UNCHANGED <<jsonl_path, has_on_progress, cb_swallowed>>

\* Stage 8: on_progress; result["threads"] = detect_threads(); on_progress
ThreadsStage ==
    /\ pl_pc = "threads"
    /\ started' = Append(started, "threads")
    /\ \E ev \in InlineEvents :
         /\ ev \in {"cb_before", "cb_after"} => has_on_progress
         /\ raised' = [raised EXCEPT !["threads"] = ev]
         /\ called' = IF ev = "cb_before" THEN called ELSE Append(called, "threads")
         /\ result' = IF ev = "no" THEN [result EXCEPT !.slots["threads"] = "ok"]
                      ELSE AdvisoryExcept(result, "threads")
         /\ events' = events \o InlineReports("threads", ev, has_on_progress)
    /\ pl_pc' = NextPc("threads")
    /\ UNCHANGED <<jsonl_path, has_on_progress, cb_swallowed>>

\* result["finished_at"] = now; log the totals; return result
PipelineFinish ==
    /\ pl_pc = "finish"
    /\ result' = [result EXCEPT !.finished_at = TRUE]
    /\ pl_pc' = "returned"
    /\ UNCHANGED <<jsonl_path, has_on_progress, started, called, raised, events, cb_swallowed>>

\* The next invocation of run_pipeline, with a fresh report.
PipelineAgain ==
    /\ pl_pc = "returned"
    /\ pl_pc' = "start"
    /\ jsonl_path' \in BOOLEAN
    /\ has_on_progress' \in BOOLEAN
    /\ result' = InitialReport
    /\ started' = <<>>
    /\ called' = <<>>
    /\ raised' = [st \in Stages |-> "no"]
    /\ events' = <<>>
    /\ cb_swallowed' = {}

----------------------------------------------------------------------------
(* summarize.py, embed.py, score.py, entities.py, topics.py : *_batch *)

ErrorType == {"NONE", "CONNECTION", "MODEL_NOT_FOUND", "SERVER_ERROR", "TIMEOUT",
              "API_ERROR", "EMPTY_RESPONSE", "PARSE_ERROR", "UNKNOWN"}

\* The error types the per-item operation is made to return in the model:
\* success, two of the non-fatal kinds and each of the fail-fast kinds.
OutcomeInputs == {"NONE", "TIMEOUT", "EMPTY_RESPONSE",
                  "CONNECTION", "MODEL_NOT_FOUND", "SERVER_ERROR"}

\* Mutant: a server error is no longer in the fail-fast set.
FATAL_ERRORS_NoServerError == {"CONNECTION", "MODEL_NOT_FOUND"}

FATAL_ERRORS == {"CONNECTION", "MODEL_NOT_FOUND", "SERVER_ERROR"}

MAX_CONSECUTIVE_FAILURES == 3

\* result = {"<count>": 0, "failed": 0, "errors": [], "last_error": None,
\*           "stopped_early": False}
ZeroResult ==
    [succeeded |-> 0, failed |-> 0, errors |-> <<>>, last_error |-> <<"None">>,
     stopped_early |-> FALSE]

\* The locals of the loop: the result dict, the failure counter, the
\* write-backs and progress calls made so far, and whether the loop was left
\* by a break.
LoopStart ==
    [res |-> ZeroResult, cf |-> 0, persisted |-> <<>>, progress |-> <<>>,
     brk |-> FALSE]

\* Mutant: a success is counted but its payload is not written back.
OnSuccess_NoPersist(st, id) ==
    [st EXCEPT !.res.succeeded = @ + 1, !.cf = 0]

\* Mutant: the failure counter is not reset by a success.
OnSuccess_NoReset(st, id) ==
    [st EXCEPT !.persisted = Append(@, id), !.res.succeeded = @ + 1]

\* if r.success: update_x(article_id, ...); result[count] += 1;
\*               consecutive_failures = 0
OnSuccess(st, id) ==
    [st EXCEPT !.persisted = Append(@, id), !.res.succeeded = @ + 1, !.cf = 0]

\* Mutant: a failure is counted without an entry in errors.
OnFailure_NoErrorEntry(st, id, et) ==
    LET counted == [st EXCEPT !.res.failed = @ + 1,
                              !.cf = @ + 1,
                              !.res.last_error = <<"plain", et>>]
    IN  IF et \in FATAL_ERRORS \/ counted.cf >= MAX_CONSECUTIVE_FAILURES
          THEN [counted EXCEPT !.res.stopped_early = TRUE, !.brk = TRUE]
        ELSE counted

\* else: failed += 1; consecutive_failures += 1; errors.append; last_error;
\*       fatal -> stopped_early, break; counter >= 3 -> stopped_early, break
OnFailure(st, id, et) ==
    LET counted == [st EXCEPT !.res.failed = @ + 1,
                              !.cf = @ + 1,
                              !.res.errors = Append(@, <<id, et>>),
                              !.res.last_error = <<"plain", et>>]
    IN  IF et \in FATAL_ERRORS
          THEN [counted EXCEPT !.res.stopped_early = TRUE,
                               !.res.last_error = <<"FATAL", et>>,
                               !.brk = TRUE]
        ELSE IF counted.cf >= MAX_CONSECUTIVE_FAILURES
          THEN [counted EXCEPT !.res.stopped_early = TRUE,
                               !.res.last_error = <<"Stopped", et>>,
                               !.brk = TRUE]
        ELSE counted

\* Mutant: an exception of the callback leaves the loop.
OnProgress_Propagates(st, cur, tot, hasCb, cbRaises) ==
    IF hasCb
      THEN [st EXCEPT !.progress = Append(@, <<cur, tot>>),
                      !.brk = cbRaises]
      ELSE st

\* if on_progress: try: on_progress(i + 1, total) except Exception: log
OnProgress(st, cur, tot, hasCb, cbRaises) ==
    IF hasCb THEN [st EXCEPT !.progress = Append(@, <<cur, tot>>)] ELSE st

\* One iteration of "for i, article in enumerate(articles)": the item with
\* id = i + 1 is processed, the operation returns error type et.
LoopBody(st, id, tot, et, hasCb, cbRaises) ==
    LET afterOp == IF et = "NONE" THEN OnSuccess(st, id) ELSE OnFailure(st, id, et)
    IN  IF afterOp.brk THEN afterOp
        ELSE OnProgress(afterOp, id, tot, hasCb, cbRaises)

\* Mutant: the loop of embed_batch has no consecutive-failure test.
BatchLoopBody_EmbedKeepsGoing(stage, st, id, tot, et, hasCb, cbRaises) ==
    LET r == LoopBody(st, id, tot, et, hasCb, cbRaises)
    IN  IF stage = "embed" /\ r.brk /\ et \notin FATAL_ERRORS
        THEN OnProgress([r EXCEPT !.brk = FALSE, !.res.stopped_early = FALSE,
                                  !.res.last_error = <<"plain", et>>],
                        id, tot, hasCb, cbRaises)
        ELSE r

\* The loop body of the batch function of a stage: summarize_batch,
\* embed_batch, score_batch, extract_batch, classify_batch and
\* resummarize_with_context_batch each have their own copy of the same
\* statements, with FATAL_ERRORS and MAX_CONSECUTIVE_FAILURES defined to the
\* same values in each module.
BatchLoopBody(stage, st, id, tot, et, hasCb, cbRaises) ==
    CASE stage = "summarize" -> LoopBody(st, id, tot, et, hasCb, cbRaises)
      [] stage = "embed" -> LoopBody(st, id, tot, et, hasCb, cbRaises)
      [] stage = "score" -> LoopBody(st, id, tot, et, hasCb, cbRaises)
      [] stage = "entities" -> LoopBody(st, id, tot, et, hasCb, cbRaises)
      [] stage = "topics" -> LoopBody(st, id, tot, et, hasCb, cbRaises)
      [] stage = "resummarize" -> LoopBody(st, id, tot, et, hasCb, cbRaises)

\* The whole loop over the outcomes outs[k..], as the code runs it, with a
\* callback that never raises.
RECURSIVE RunLoop(_, _, _, _, _)
RunLoop(st, outs, k, tot, hasCb) ==
    IF st.brk \/ k > Len(outs) \/ k > tot THEN st
    ELSE RunLoop(LoopBody(st, k, tot, outs[k], hasCb, FALSE), outs, k + 1, tot, hasCb)

BatchIdle ==
    /\ b_stage = "summarize"
    /\ b_on_progress = FALSE
    /\ b_pc = "start"
    /\ total = 0
    /\ b_result = ZeroResult
    /\ consecutive_failures = 0
    /\ outcomes = <<>>
    /\ persisted = <<>>
    /\ progress = <<>>
    /\ cb_raised = FALSE

\* Mutant: the empty batch still reports progress before returning.
BatchStart_ReportsEmpty ==
    /\ b_pc = "start"
    /\ b_pc' = IF total = 0 THEN "done" ELSE "loop"
    /\ progress' = IF total = 0 /\ b_on_progress THEN <<<<0, 0>>>> ELSE progress
    /\ UNCHANGED <<b_stage, b_on_progress, total, b_result, consecutive_failures,
                   outcomes, persisted, cb_raised>>

\* articles = get_unX_articles(); total = len(articles);
\* if total == 0: return result;  consecutive_failures = 0
BatchStart ==
    /\ b_pc = "start"
    /\ b_pc' = IF total = 0 THEN "done" ELSE "loop"
    /\ UNCHANGED <<b_stage, b_on_progress, total, b_result, consecutive_failures,
                   outcomes, persisted, progress, cb_raised>>

\* One loop iteration on the next article; the operation's error type and
\* whether the callback raises are inputs.
BatchItem ==
    /\ b_pc = "loop"
    /\ \E et \in OutcomeInputs, cbRaises \in BOOLEAN :
         LET id == Len(outcomes) + 1
             st == [res |-> b_result, cf |-> consecutive_failures,
                    persisted |-> persisted, progress |-> progress, brk |-> FALSE]
             st2 == BatchLoopBody(b_stage, st, id, total, et, b_on_progress, cbRaises)
         IN  /\ cbRaises => b_on_progress
             /\ outcomes' = Append(outcomes, et)
             /\ b_result' = st2.res
             /\ consecutive_failures' = st2.cf
             /\ persisted' = st2.persisted
             /\ progress' = st2.progress
             /\ cb_raised' = (cb_raised \/ (cbRaises /\ Len(st2.progress) > Len(progress)))
             /\ b_pc' = IF st2.brk \/ id = total THEN "exit" ELSE "loop"
    /\ UNCHANGED <<b_stage, b_on_progress, total>>

\* logger.info("Batch complete ..."); return result
BatchReturn ==
    /\ b_pc = "exit"
    /\ b_pc' = "done"
    /\ UNCHANGED <<b_stage, b_on_progress, total, b_result, consecutive_failures,
                   outcomes, persisted, progress, cb_raised>>

----------------------------------------------------------------------------
(* threads.py : detect_threads; db.py : threads and article_threads *)

CLUSTER_THRESHOLD == 5
EMBEDDING_TOP_K == 5
ENTITY_OVERLAP_MIN == 2

ArticleIds == 1..NumArticles

\* The article data a run can find.  "clique": every article names the same
\* two organisations, in varying case, whitespace and category, and two out
\* of three name a person as well.  "chain": the
\* articles share a single entity and each has the next one as its only
\* embedding neighbour.  "split6": articles 1-6 share one pair of entities,
\* the later ones another pair.
LinkProfiles == {"clique", "chain", "split6"}

\* json.loads(article["entities"]): category -> list of names.
Entities(links, a) ==
    CASE links = "clique" ->
           IF a % 2 = 1
           THEN [orgs |-> <<"Acme", "Bolt">>,
                 people |-> IF a % 3 = 0 THEN <<>> ELSE <<"Dune">>]
           ELSE [orgs |-> <<"acme ">>,
                 people |-> IF a % 3 = 0 THEN <<"bolt", " ">> ELSE <<"bolt", " ", "Dune">>]
      [] links = "chain" -> [orgs |-> <<"Common">>, people |-> <<>>]
      [] OTHER ->
           IF a <= 6 THEN [orgs |-> <<"Acme", "Bolt">>, people |-> <<"Common">>]
                     ELSE [orgs |-> <<"Cobalt", "Dune">>, people |-> <<"Common">>]

\* name.strip().lower()
StripLower(n) ==
    CASE n \in {"Acme", "acme ", "acme"} -> "acme"
      [] n \in {"Bolt", "bolt"} -> "bolt"
      [] n \in {"Common", "common"} -> "common"
      [] n \in {"Cobalt", "cobalt"} -> "cobalt"
      [] n \in {"Dune", "dune"} -> "dune"
      [] OTHER -> ""

\* The names of an article that pass "name.strip()", stripped and lowercased,
\* over all categories.
LowerNames(links, a) ==
    LET e == Entities(links, a)
    IN  UNION { { StripLower(e[c][k]) : k \in 1..Len(e[c]) } : c \in DOMAIN e } \ {""}

\* The rows of vec_articles by increasing distance from the embedding of
\* article a, the article itself first.  Every stored article is inside the
\* date window.
Ranking(links, a) ==
    IF links = "chain" THEN <<a>> \o [k \in 1..(NumArticles - a) |-> a + k] ELSE <<a>>

\* search_by_embedding_with_date: the limit + 5 nearest rows, without the
\* excluded id, cut after limit results.
search_by_embedding_with_date(ranking, limit, exclude_id) ==
    LET fetch_limit == limit + 5
        rows == SubSeq(ranking, 1, IF Len(ranking) < fetch_limit THEN Len(ranking) ELSE fetch_limit)
        kept == SelectSeq(rows, LAMBDA id : id # exclude_id)
    IN  SubSeq(kept, 1, IF Len(kept) < limit THEN Len(kept) ELSE limit)

\* {r["id"] for r in results} of the search with limit=EMBEDDING_TOP_K:
\* the ids need not be in the working set.
KNN(links, a) ==
    LET results == search_by_embedding_with_date(Ranking(links, a), EMBEDDING_TOP_K, a)
    IN  { results[k] : k \in 1..Len(results) }

\* Inverted index: lowercased entity name -> ids of the articles naming it.
build_entity_index(links, ws) ==
    LET names == UNION { LowerNames(links, a) : a \in ws }
    IN  [n \in names |-> {a \in ws : n \in LowerNames(links, a)}]

\* Mutant: the test "other_id != article_id" is missing.
find_entity_neighbors_IncludesSelf(links, a, entity_index, min_overlap) ==
    LET article_entities == LowerNames(links, a)
        others == UNION { entity_index[n] : n \in article_entities \cap DOMAIN entity_index }
        count(o) == Cardinality({n \in article_entities \cap DOMAIN entity_index :
                                   o \in entity_index[n]})
    IN  {o \in others : count(o) >= min_overlap}

\* Articles whose count of shared index buckets reaches min_overlap.
find_entity_neighbors(links, a, entity_index, min_overlap) ==
    LET article_entities == LowerNames(links, a)
        others == UNION { entity_index[n] : n \in article_entities \cap DOMAIN entity_index } \ {a}
        count(o) == Cardinality({n \in article_entities \cap DOMAIN entity_index :
                                   o \in entity_index[n]})
    IN  {o \in others : count(o) >= min_overlap}

\* The ids of the search result; the search excludes the article itself.
find_embedding_neighbors(links, a) == KNN(links, a) \ {a}

\* Mutant: the neighbours are not restricted to the working set.
AllNeighbors_NoFilter(links, ws, a, entity_index) ==
    find_embedding_neighbors(links, a)
       \cup find_entity_neighbors(links, a, entity_index, ENTITY_OVERLAP_MIN)

\* emb_neighbors &= article_ids; ent_neighbors &= article_ids; union.
AllNeighbors(links, ws, a, entity_index) ==
    (find_embedding_neighbors(links, a) \cap ws)
       \cup (find_entity_neighbors(links, a, entity_index, ENTITY_OVERLAP_MIN) \cap ws)

\* A finite set of numbers as an ascending / descending sequence.
RECURSIVE Ascending(_)
Ascending(S) ==
    IF S = {} THEN <<>>
    ELSE LET m == CHOOSE x \in S : \A y \in S : x <= y
         IN  <<m>> \o Ascending(S \ {m})

RECURSIVE Descending(_)
Descending(S) ==
    IF S = {} THEN <<>>
    ELSE LET m == CHOOSE x \in S : \A y \in S : x >= y
         IN  <<m>> \o Descending(S \ {m})

\* The rows of get_articles_with_entities_in_range: ORDER BY pub_date DESC.
ArticleList(ws) == Descending(ws)

\* Mutant: only graph[aid].add(n), the reverse entry is missing.
AddEdges_Directed(g, aid, nbrs) ==
    IF nbrs = {} THEN g
    ELSE [keys |-> IF aid \in DOMAIN g.adj THEN g.keys ELSE Append(g.keys, aid),
          adj |-> [n \in DOMAIN g.adj \cup {aid} |->
                     (IF n \in DOMAIN g.adj THEN g.adj[n] ELSE {})
                       \cup (IF n = aid THEN nbrs ELSE {})]]

\* One pass of "graph[aid].add(n); graph[n].add(aid)" over an article's
\* neighbours.  g.keys is the insertion order of the dict, g.adj its values;
\* an article without neighbours gets no key.
AddEdges(g, aid, nbrs) ==
    LET touched == {aid} \cup nbrs
        fresh == IF nbrs = {} THEN {} ELSE touched \ DOMAIN g.adj
        order == (IF aid \in fresh THEN <<aid>> ELSE <<>>) \o Ascending(fresh \ {aid})
        dom == DOMAIN g.adj \cup fresh
    IN  [keys |-> g.keys \o order,
         adj |-> [n \in dom |->
                    (IF n \in DOMAIN g.adj THEN g.adj[n] ELSE {})
                      \cup (IF n = aid THEN nbrs ELSE {})
                      \cup (IF n \in nbrs THEN {aid} ELSE {})]]

\* Step 3 of detect_threads: the loop over the article list, with the entity
\* index that was built once before it.
RECURSIVE BuildGraph(_, _, _, _, _)
BuildGraph(links, ws, arts, g, entity_index) ==
    IF arts = <<>> THEN g
    ELSE BuildGraph(links, ws, Tail(arts),
                    AddEdges(g, Head(arts),
                             AllNeighbors(links, ws, Head(arts), entity_index)),
                    entity_index)

EmptyGraph == [keys |-> <<>>, adj |-> << >>]

\* The inner while loop of _find_connected_components.
RECURSIVE BFS(_, _, _, _)
BFS(adj, visited, component, queue) ==
    IF queue = <<>> THEN component
    ELSE LET current == Head(queue)
         IN  IF current \in visited
             THEN BFS(adj, visited, component, Tail(queue))
             ELSE LET nv == visited \cup {current}
                      nbrs == IF current \in DOMAIN adj THEN adj[current] ELSE {}
                  IN  BFS(adj, nv, component \cup {current},
                          Tail(queue) \o Ascending(nbrs \ nv))

\* The outer loop "for node in graph": the list of components.
RECURSIVE find_connected_components(_, _, _)
find_connected_components(g, k, visited) ==
    IF k > Len(g.keys) THEN <<>>
    ELSE IF g.keys[k] \in visited
         THEN find_connected_components(g, k + 1, visited)
         ELSE LET component == BFS(g.adj, visited, {}, <<g.keys[k]>>)
              IN  <<component>>
                    \o find_connected_components(g, k + 1, visited \cup component)

\* Step 4: components = _find_connected_components(graph)
Components(g) == find_connected_components(g, 1, {})

\* _find_connected_components, statement by statement.
ComponentsIdle ==
    /\ cc_graph = EmptyGraph
    /\ cc_pc = "outer"
    /\ cc_k = 1
    /\ cc_visited = {}
    /\ cc_component = {}
    /\ cc_queue = <<>>
    /\ cc_components = <<>>

\* for node in graph: if node in visited: continue; component = set();
\* queue = deque([node])
CCOuter ==
    /\ cc_pc = "outer"
    /\ cc_k <= Len(cc_graph.keys)
    /\ IF cc_graph.keys[cc_k] \in cc_visited
         THEN /\ cc_k' = cc_k + 1
              /\ UNCHANGED <<cc_pc, cc_component, cc_queue>>
         ELSE /\ cc_component' = {}
              /\ cc_queue' = <<cc_graph.keys[cc_k]>>
              /\ cc_pc' = "bfs"
              /\ UNCHANGED cc_k
    /\ UNCHANGED <<cc_graph, cc_visited, cc_components>>

\* Mutant: the neighbours of the current node are not queued.
CCPop_NoNeighbors ==
    /\ cc_pc = "bfs"
    /\ cc_queue # <<>>
    /\ LET current == Head(cc_queue)
       IN  IF current \in cc_visited
           THEN /\ cc_queue' = Tail(cc_queue)
                /\ UNCHANGED <<cc_visited, cc_component>>
           ELSE /\ cc_visited' = cc_visited \cup {current}
                /\ cc_component' = cc_component \cup {current}
                /\ cc_queue' = Tail(cc_queue)
    /\ UNCHANGED <<cc_graph, cc_pc, cc_k, cc_components>>

\* while queue: current = queue.popleft(); if current in visited: continue;
\* visited.add(current); component.add(current); queue the unvisited neighbours
CCPop ==
    /\ cc_pc = "bfs"
    /\ cc_queue # <<>>
    /\ LET current == Head(cc_queue)
           nbrs == IF current \in DOMAIN cc_graph.adj THEN cc_graph.adj[current] ELSE {}
       IN  IF current \in cc_visited
           THEN /\ cc_queue' = Tail(cc_queue)
                /\ UNCHANGED <<cc_visited, cc_component>>
           ELSE /\ cc_visited' = cc_visited \cup {current}
                /\ cc_component' = cc_component \cup {current}
                /\ cc_queue' = Tail(cc_queue) \o Ascending(nbrs \ cc_visited')
    /\ UNCHANGED <<cc_graph, cc_pc, cc_k, cc_components>>

\* The queue is empty: if component: components.append(component)
CCAppend ==
    /\ cc_pc = "bfs"
    /\ cc_queue = <<>>
    /\ cc_components' = IF cc_component # {} THEN Append(cc_components, cc_component)
                        ELSE cc_components
    /\ cc_k' = cc_k + 1
    /\ cc_pc' = "outer"
    /\ UNCHANGED <<cc_graph, cc_visited, cc_component, cc_queue>>

\* The for loop is exhausted: return components
CCReturn ==
    /\ cc_pc = "outer"
    /\ cc_k > Len(cc_graph.keys)
    /\ cc_pc' = "done"
    /\ UNCHANGED <<cc_graph, cc_k, cc_visited, cc_component, cc_queue, cc_components>>

\* Mutant: the size filter is missing.
Qualifying_NoFilter(components) == components

\* qualifying = [c for c in components if len(c) >= CLUSTER_THRESHOLD]
Qualifying(components) ==
    SelectSeq(components, LAMBDA c : Cardinality(c) >= CLUSTER_THRESHOLD)

\* name.strip()
Strip(n) ==
    CASE n = "acme " -> "acme"
      [] n = " " -> ""
      [] OTHER -> n

\* The order of entities_dict.values(): the order of the keys in the JSON text.
CategoryOrder == <<"orgs", "people">>

\* The names one article adds to entity_counts, in the order of the two
\* inner loops of _name_thread_from_entities.
CountedNames(links, a) ==
    LET e == Entities(links, a)
        all == e[CategoryOrder[1]] \o e[CategoryOrder[2]]
    IN  SelectSeq([k \in 1..Len(all) |-> Strip(all[k])], LAMBDA n : n # "")

\* All counted occurrences of a cluster; the ids of the set are visited in
\* ascending order.
RECURSIVE Occurrences(_, _)
Occurrences(links, ids) ==
    IF ids = <<>> THEN <<>>
    ELSE CountedNames(links, Head(ids)) \o Occurrences(links, Tail(ids))

\* The keys of a Counter in the order of their first occurrence.
RECURSIVE FirstSeen(_)
FirstSeen(occ) ==
    IF occ = <<>> THEN <<>>
    ELSE LET rest == FirstSeen(SubSeq(occ, 1, Len(occ) - 1))
             n == occ[Len(occ)]
         IN  IF \E k \in 1..Len(rest) : rest[k] = n THEN rest ELSE Append(rest, n)

CountOf(occ, n) == Cardinality({k \in 1..Len(occ) : occ[k] = n})

\* Counter.most_common(limit): highest count first, equal counts in the order
\* first encountered.
RECURSIVE most_common(_, _, _)
most_common(occ, keys, limit) ==
    IF limit = 0 \/ keys = <<>> THEN <<>>
    ELSE LET best == CHOOSE k \in 1..Len(keys) :
                        /\ \A j \in 1..Len(keys) : CountOf(occ, keys[j]) <= CountOf(occ, keys[k])
                        /\ \A j \in 1..(k - 1) : CountOf(occ, keys[j]) < CountOf(occ, keys[k])
         IN  <<keys[best]>>
               \o most_common(occ, SelectSeq(keys, LAMBDA n : n # keys[best]), limit - 1)

\* _name_thread_from_entities: (thread_name, top_5_entities_list)
name_thread_from_entities(links, cluster) ==
    LET occ == Occurrences(links, Ascending(cluster))
        top_entities == most_common(occ, FirstSeen(occ), 5)
    IN  IF occ = <<>> THEN [name |-> "Unnamed Thread", primary_entities |-> <<>>]
        ELSE [name |-> top_entities[1], primary_entities |-> top_entities]

\* The working sets a run can find: no article, or at least four articles
\* with consecutive ids.
WorkingSets ==
    {{}} \cup { iv[1]..iv[2] : iv \in {p \in ArticleIds \X ArticleIds : p[2] >= p[1] + 3} }

\* The articles table behind a working set lo..hi: the articles before lo
\* have entities but no embedding yet, the articles after hi an embedding
\* but no entities yet; every article is inside the date window.
ArticleTable(ws) ==
    [a \in ArticleIds |->
        [embedded |-> ws # {} /\ (a \in ws \/ \A w \in ws : a > w),
         extracted |-> ws # {} /\ (a \in ws \/ \A w \in ws : a < w)]]

\* WHERE embedded_at IS NOT NULL AND entities_extracted_at IS NOT NULL
\* AND pub_date >= since
get_articles_with_entities_in_range(articles) ==
    {a \in DOMAIN articles : articles[a].embedded /\ articles[a].extracted}

ZeroThreadResult == [threads_created |-> 0, threads_updated |-> 0, articles_linked |-> 0]

NoCluster == [cluster |-> {}, thread |-> 0, before |-> <<>>]

\* create_thread: INSERT INTO threads, commit; the new row has no members.
create_thread(store) == Append(store, {})

\* Mutant: the junction rows of the thread are replaced by the new ids.
AddArticles_Replace(members, article_ids) == article_ids

\* INSERT OR IGNORE INTO article_threads for every id.
AddArticles(members, article_ids) == members \cup article_ids

\* Mutant: the thread's junction rows are deleted before the insert.
add_articles_to_thread_Resets(store, thread_id, article_ids) ==
    [store EXCEPT ![thread_id] = article_ids]

add_articles_to_thread(store, thread_id, article_ids) ==
    [store EXCEPT ![thread_id] = AddArticles(@, article_ids)]

\* Mutant: the junction table is read as empty.
get_all_thread_article_ids_Empty(store) == [t \in {} |-> {}]

\* SELECT thread_id, article_id FROM article_threads, grouped by thread:
\* only threads with at least one row appear.
get_all_thread_article_ids(store) ==
    [t \in {i \in 1..Len(store) : store[i] # {}} |-> store[t]]

\* The orders in which the rows of a set of threads can come back.
Perms(S) ==
    { f \in [1..Cardinality(S) -> S] : \A i, j \in 1..Cardinality(S) : f[i] = f[j] => i = j }

\* Mutant: a ratio of exactly one half also matches.
ExceedsOverlapRatio_AtLeast(overlap, size) == 2 * overlap >= size

\* overlap / len(cluster) > THREAD_OVERLAP_RATIO, with THREAD_OVERLAP_RATIO = 0.5
ExceedsOverlapRatio(overlap, size) == 2 * overlap > size

\* Mutant: "overlap >= best_overlap", the last thread among equals wins.
RECURSIVE BestThread_LastAmongEquals(_, _, _, _, _, _)
BestThread_LastAmongEquals(cluster, snap, order, k, best_thread_id, best_overlap) ==
    IF k > Len(order) THEN best_thread_id
    ELSE LET thread_id == order[k]
             overlap == Cardinality(cluster \cap snap[thread_id])
         IN  IF ExceedsOverlapRatio(overlap, Cardinality(cluster)) /\ overlap >= best_overlap
             THEN BestThread_LastAmongEquals(cluster, snap, order, k + 1, thread_id, overlap)
             ELSE BestThread_LastAmongEquals(cluster, snap, order, k + 1,
                                             best_thread_id, best_overlap)

\* The loop over existing_thread_articles.items(); 0 stands for None.
RECURSIVE BestThread(_, _, _, _, _, _)
BestThread(cluster, snap, order, k, best_thread_id, best_overlap) ==
    IF k > Len(order) THEN best_thread_id
    ELSE LET thread_id == order[k]
             overlap == Cardinality(cluster \cap snap[thread_id])
         IN  IF ExceedsOverlapRatio(overlap, Cardinality(cluster)) /\ overlap > best_overlap
             THEN BestThread(cluster, snap, order, k + 1, thread_id, overlap)
             ELSE BestThread(cluster, snap, order, k + 1, best_thread_id, best_overlap)

ThreadsIdle ==
    /\ t_pc = "idle"
    /\ t_run = 0
    /\ t_articles = ArticleTable({})
    /\ t_ws = {}
    /\ t_graph = << >>
    /\ t_links = "clique"
    /\ thread_members = <<>>
    /\ t_snapshot = << >>
    /\ t_order = <<>>
    /\ t_pending = <<>>
    /\ t_cur = NoCluster
    /\ t_result = ZeroThreadResult
    /\ t_components = <<>>
    /\ store_at_start = <<>>
    /\ t_unchanged = FALSE
    /\ t_log = <<>>

\* Steps 2-3 of detect_threads for every table of articles a run can find:
\* the entity index is built once, then the graph, article by article.
DetectedGraph ==
    [ws \in WorkingSets, links \in LinkProfiles |->
       LET articles == get_articles_with_entities_in_range(ArticleTable(ws))
       IN  BuildGraph(links, articles, ArticleList(articles), EmptyGraph,
                      build_entity_index(links, articles))]

\* detect_threads up to the first write: fetch, the two early returns, graph,
\* components, filter, and the one load of the existing associations.
DetectStart ==
    /\ t_pc \in {"idle", "done"}
    /\ t_run < MaxRuns
    /\ t_run' = t_run + 1
    /\ store_at_start' = thread_members
    /\ t_result' = ZeroThreadResult
    /\ t_log' = <<>>
    /\ t_cur' = NoCluster
    /\ \E ws \in WorkingSets, links \in LinkProfiles :
         /\ t_articles' = ArticleTable(ws)
         /\ t_ws' = get_articles_with_entities_in_range(t_articles')
         /\ t_links' = links
         /\ t_unchanged' = (t_run > 0 /\ t_articles' = t_articles /\ links = t_links)
         /\ IF Cardinality(t_ws') < CLUSTER_THRESHOLD
            THEN /\ t_graph' = << >>
                 /\ t_components' = <<>>
                 /\ t_pending' = <<>>
                 /\ t_snapshot' = << >>
                 /\ t_order' = <<>>
                 /\ t_pc' = "done"
            ELSE LET graph == DetectedGraph[ws, links]
                     components == Components(graph)
                     qualifying == Qualifying(components)
                 IN  /\ t_graph' = graph.adj
                     /\ t_components' = components
                     /\ t_pending' = qualifying
                     /\ IF qualifying = <<>>
                        THEN /\ t_snapshot' = << >>
                             /\ t_order' = <<>>
                             /\ t_pc' = "done"
                        ELSE /\ t_snapshot' = get_all_thread_article_ids(thread_members)
                             /\ t_order' \in Perms(DOMAIN t_snapshot')
                             /\ t_pc' = "loop"
    /\ UNCHANGED thread_members

\* The thread the next cluster goes to.
CurrentBest == BestThread(Head(t_pending), t_snapshot, t_order, 1, 0, 0)

\* if best_thread_id: add_articles_to_thread(best_thread_id, list(cluster))
ExtendAdd ==
    /\ t_pc = "loop"
    /\ t_pending # <<>>
    /\ CurrentBest # 0
    /\ t_cur' = [cluster |-> Head(t_pending), thread |-> CurrentBest,
                 before |-> thread_members]
    /\ thread_members' = add_articles_to_thread(thread_members, CurrentBest, Head(t_pending))
    /\ t_pc' = "extend_added"
    /\ UNCHANGED <<t_run, t_articles, t_ws, t_graph, t_links, t_snapshot, t_order, t_pending, t_result,
                   t_components, store_at_start, t_unchanged, t_log>>

\* update_thread(best_thread_id, name, primary_entities); the two counters.
ExtendUpdate ==
    /\ t_pc = "extend_added"
    /\ t_result' = [t_result EXCEPT !.threads_updated = @ + 1,
                                    !.articles_linked = @ + Cardinality(t_cur.cluster)]
    /\ t_log' = Append(t_log, [cluster |-> t_cur.cluster, kind |-> "extend",
                               thread |-> t_cur.thread, before |-> t_cur.before,
                               after |-> thread_members,
                               named |-> name_thread_from_entities(t_links, t_cur.cluster)])
    /\ t_pending' = Tail(t_pending)
    /\ t_cur' = NoCluster
    /\ t_pc' = "loop"
    /\ UNCHANGED <<t_run, t_articles, t_ws, t_graph, t_links, thread_members, t_snapshot, t_order,
                   t_components, store_at_start, t_unchanged>>

\* else: thread_id = create_thread(thread_name, primary_entities_json)
CreateThread ==
    /\ t_pc = "loop"
    /\ t_pending # <<>>
    /\ CurrentBest = 0
    /\ t_cur' = [cluster |-> Head(t_pending), thread |-> Len(thread_members) + 1,
                 before |-> thread_members]
    /\ thread_members' = create_thread(thread_members)
    /\ t_pc' = "created"
    /\ UNCHANGED <<t_run, t_articles, t_ws, t_graph, t_links, t_snapshot, t_order, t_pending, t_result,
                   t_components, store_at_start, t_unchanged, t_log>>

\* add_articles_to_thread(thread_id, list(cluster)); the two counters.
CreateAdd ==
    /\ t_pc = "created"
    /\ thread_members' = add_articles_to_thread(thread_members, t_cur.thread, t_cur.cluster)
    /\ t_result' = [t_result EXCEPT !.threads_created = @ + 1,
                                    !.articles_linked = @ + Cardinality(t_cur.cluster)]
    /\ t_log' = Append(t_log, [cluster |-> t_cur.cluster, kind |-> "create",
                               thread |-> t_cur.thread, before |-> t_cur.before,
                               after |-> thread_members',
                               named |-> name_thread_from_entities(t_links, t_cur.cluster)])
    /\ t_pending' = Tail(t_pending)
    /\ t_cur' = NoCluster
    /\ t_pc' = "loop"
    /\ UNCHANGED <<t_run, t_articles, t_ws, t_graph, t_links, t_snapshot, t_order, t_components,
                   store_at_start, t_unchanged>>

\* The for loop is exhausted: return result.
DetectReturn ==
    /\ t_pc = "loop"
    /\ t_pending = <<>>
    /\ t_pc' = "done"
    /\ UNCHANGED <<t_run, t_articles, t_ws, t_graph, t_links, thread_members, t_snapshot, t_order,
                   t_pending, t_cur, t_result, t_components, store_at_start,
                   t_unchanged, t_log>>

----------------------------------------------------------------------------
(* db.py : the work-item queries and write-backs of the stage batches *)

StoredIds == 1..NumStored

\* The batches that work on the articles table: the five stage batches and
\* resummarize_with_context_batch.
StageBatches == BatchStages \cup {"resummarize"}

\* A row as ingest leaves it: no enrichment field is set.
NewRow ==
    [summary |-> FALSE, context_article_ids |-> FALSE, embedded_at |-> FALSE,
     scored_at |-> FALSE, entities_extracted_at |-> FALSE,
     topics_classified_at |-> FALSE]

\* Mutant: get_unscored_articles selects on scored_at alone.
Pending_ScoreWithoutSummary(st, row) ==
    CASE st = "summarize" -> ~row.summary
      [] st = "embed" -> row.summary /\ ~row.embedded_at
      [] st = "score" -> ~row.scored_at
      [] st = "entities" -> row.summary /\ ~row.entities_extracted_at
      [] st = "topics" -> row.summary /\ ~row.topics_classified_at
      [] st = "resummarize" -> row.summary /\ ~row.context_article_ids /\ row.embedded_at

\* Mutant: the queries of stages 4-7 do not test the stage's timestamp.
Pending_IgnoresTimestamp(st, row) ==
    IF st = "summarize" THEN ~row.summary ELSE row.summary

\* The WHERE clause of get_unsummarized_articles, get_unembedded_articles,
\* get_unscored_articles, get_unextracted_articles, get_unclassified_articles,
\* get_articles_needing_context_resummarization.
Pending(st, row) ==
    CASE st = "summarize" -> ~row.summary
      [] st = "embed" -> row.summary /\ ~row.embedded_at
      [] st = "score" -> row.summary /\ ~row.scored_at
      [] st = "entities" -> row.summary /\ ~row.entities_extracted_at
      [] st = "topics" -> row.summary /\ ~row.topics_classified_at
      [] st = "resummarize" -> row.summary /\ ~row.context_article_ids /\ row.embedded_at

\* The rows of the stage's query: ORDER BY pub_date DESC.
WorkItems(st, table) == Descending({a \in DOMAIN table : Pending(st, table[a])})

\* update_summary_with_context, update_embedding, update_relevance_scores,
\* update_entities, update_topics.
WriteBack(st, row) ==
    CASE st = "summarize" -> [row EXCEPT !.summary = TRUE, !.context_article_ids = TRUE]
      [] st = "embed" -> [row EXCEPT !.embedded_at = TRUE]
      [] st = "score" -> [row EXCEPT !.scored_at = TRUE]
      [] st = "entities" -> [row EXCEPT !.entities_extracted_at = TRUE]
      [] st = "topics" -> [row EXCEPT !.topics_classified_at = TRUE]
      [] st = "resummarize" -> [row EXCEPT !.summary = TRUE, !.context_article_ids = TRUE]

\* What the per-item operation returns here: success, a transient failure,
\* a fail-fast failure.
StageOutcomes == {"NONE", "TIMEOUT", "CONNECTION"}

StagesIdle ==
    /\ art = [a \in StoredIds |-> NewRow]
    /\ s_pc = "idle"
    /\ s_stage = "summarize"
    /\ s_items = <<>>
    /\ s_cf = 0
    /\ s_prior = {}
    /\ s_writes = [st \in StageBatches |-> [a \in StoredIds |-> 0]]
    /\ s_runs = 0

\* articles = get_unX_articles(); if total == 0: return result
StageBatchStart(st) ==
    /\ s_pc = "idle"
    /\ s_runs < MaxBatches
    /\ s_runs' = s_runs + 1
    /\ s_stage' = st
    /\ s_items' = WorkItems(st, art)
    /\ s_cf' = 0
    /\ s_prior' = {a \in StoredIds : s_writes[st][a] > 0}
    /\ s_pc' = IF s_items' = <<>> THEN "idle" ELSE "loop"
    /\ UNCHANGED <<art, s_writes>>

\* POST /article/<id>/summarize: summarize_article, then update_summary,
\* which sets summary, keywords and summarized_at and leaves
\* context_article_ids as it is.
RegenerateSummary(a) ==
    /\ s_pc = "idle"
    /\ s_runs < MaxBatches
    /\ s_runs' = s_runs + 1
    /\ \E success \in BOOLEAN :
         art' = IF success THEN [art EXCEPT ![a].summary = TRUE] ELSE art
    /\ UNCHANGED <<s_pc, s_stage, s_items, s_cf, s_prior, s_writes>>

\* One iteration of the batch loop on the next work item.
StageBatchItem ==
    /\ s_pc = "loop"
    /\ \E et \in StageOutcomes :
         LET id == Head(s_items)
             st2 == BatchLoopBody(s_stage, [LoopStart EXCEPT !.cf = s_cf], id,
                                  Len(s_items), et, FALSE, FALSE)
             written == st2.persisted # <<>>
         IN  /\ art' = IF written THEN [art EXCEPT ![id] = WriteBack(s_stage, @)] ELSE art
             /\ s_writes' = IF written THEN [s_writes EXCEPT ![s_stage][id] = @ + 1]
                                       ELSE s_writes
             /\ s_cf' = st2.cf
             /\ s_items' = Tail(s_items)
             /\ s_pc' = IF st2.brk \/ Tail(s_items) = <<>> THEN "idle" ELSE "loop"
    /\ UNCHANGED <<s_stage, s_prior, s_runs>>

----------------------------------------------------------------------------
(* score.py : parse_score_response, compute_*, score_article *)

\* Positions of DIMENSION_KEYS.
Dimensions == 1..7

\* int(value) of a dimension in the model's response: below the range (stored
\* as 0), 1, 2, 3, and above the range (stored as 3).
RawValues == {-1, 1, 2, 3, 4}

\* scores[key] = max(0, min(3, value))
Clamp(value) ==
    LET capped == IF value < 3 THEN value ELSE 3
    IN  IF capped > 0 THEN capped ELSE 0

parse_score_response(raw) == [k \in Dimensions |-> Clamp(raw[k])]

RECURSIVE SumSeq(_)
SumSeq(q) == IF q = <<>> THEN 0 ELSE Head(q) + SumSeq(Tail(q))

\* sum(scores.get(key, 0) for key in DIMENSION_KEYS)
compute_composite(scores) == SumSeq(scores)

\* Mutant: the first threshold is exclusive.
compute_tier_Exclusive(composite) ==
    IF composite > 15 THEN 1
    ELSE IF composite >= 10 THEN 2
    ELSE IF composite >= 5 THEN 3
    ELSE IF composite >= 1 THEN 4
    ELSE 5

compute_tier(composite) ==
    IF composite >= 15 THEN 1
    ELSE IF composite >= 10 THEN 2
    ELSE IF composite >= 5 THEN 3
    ELSE IF composite >= 1 THEN 4
    ELSE 5

\* Mutant: four high dimensions are enough.
compute_convergence_Four(scores) ==
    Cardinality({k \in DOMAIN scores : scores[k] >= 2}) >= 4

\* high_dims = sum(1 for key in DIMENSION_KEYS if scores.get(key, 0) >= 2)
compute_convergence(scores) ==
    Cardinality({k \in DOMAIN scores : scores[k] >= 2}) >= 5

NoScoreResult == [scores |-> <<>>, composite_score |-> 0, tier |-> 0, convergence_flag |-> FALSE]

NoScoreRow == [d |-> <<>>, composite_score |-> 0, relevance_tier |-> 0, convergence_flag |-> 0]

ScoreIdle ==
    /\ sc_raw = [k \in Dimensions |-> 0]
    /\ sc_pc = "idle"
    /\ sc_result = NoScoreResult
    /\ sc_row = NoScoreRow

\* score_article from the parsed response on: scores, composite, tier and
\* convergence of the ScoreResult.
ScoreArticle ==
    /\ sc_pc = "response"
    /\ LET scores == parse_score_response(sc_raw)
           composite == compute_composite(scores)
       IN  sc_result' = [scores |-> scores, composite_score |-> composite,
                         tier |-> compute_tier(composite),
                         convergence_flag |-> compute_convergence(scores)]
    /\ sc_pc' = "scored"
    /\ UNCHANGED <<sc_raw, sc_row>>

\* if sr.success: update_relevance_scores(article_id, sr.scores,
\*     sr.composite_score, sr.tier, 1 if sr.convergence_flag else 0, ...)
UpdateRelevanceScores ==
    /\ sc_pc = "scored"
    /\ sc_row' = [d |-> sc_result.scores,
                  composite_score |-> sc_result.composite_score,
                  relevance_tier |-> sc_result.tier,
                  convergence_flag |-> IF sc_result.convergence_flag THEN 1 ELSE 0]
    /\ sc_pc' = "stored"
    /\ UNCHANGED <<sc_raw, sc_result>>

----------------------------------------------------------------------------
(* Specifications *)

InitGuard == GuardIdle /\ PipelineIdle /\ BatchIdle /\ ThreadsIdle /\ StagesIdle /\ ScoreIdle /\ DigestIdle /\ ComponentsIdle

NextGuard ==
    /\ \/ \E s \in SchedInv : SchedTryStart(s)
       \/ \E s \in SchedInv : SchedRunPipeline(s)
       \/ \E s \in SchedInv : SchedFinish(s)
       \/ \E s \in SchedInv : SchedFire(s)
       \/ \E m \in ManualReq : TriggerCheckJob(m)
       \/ \E m \in ManualReq : TriggerCheckSched(m)
       \/ \E m \in ManualReq : JobStart(m)
       \/ \E m \in ManualReq : JobRunPipeline(m)
       \/ \E m \in ManualReq : JobFinish(m)
       \/ \E m \in ManualReq : TriggerAgain(m)
    /\ UNCHANGED <<pipeVars, batchVars, threadVars, stageVars, scoreVars, digestVars, ccVars>>

SpecGuard == InitGuard /\ [][NextGuard]_vars

\* Every thread that is inside a job keeps running: run_pipeline returns or
\* raises, and the blocks that follow it are executed.
FairGuard ==
    /\ \A s \in SchedInv : WF_vars(SchedRunPipeline(s) /\ UNCHANGED <<pipeVars, batchVars, threadVars, stageVars, scoreVars, digestVars, ccVars>>)
    /\ \A s \in SchedInv : WF_vars(SchedFinish(s) /\ UNCHANGED <<pipeVars, batchVars, threadVars, stageVars, scoreVars, digestVars, ccVars>>)
    /\ \A m \in ManualReq : WF_vars(JobRunPipeline(m) /\ UNCHANGED <<pipeVars, batchVars, threadVars, stageVars, scoreVars, digestVars, ccVars>>)
    /\ \A m \in ManualReq : WF_vars(JobFinish(m) /\ UNCHANGED <<pipeVars, batchVars, threadVars, stageVars, scoreVars, digestVars, ccVars>>)

FairSpecGuard == SpecGuard /\ FairGuard

InitPipeline ==
    /\ GuardIdle /\ BatchIdle /\ ThreadsIdle /\ StagesIdle /\ ScoreIdle /\ DigestIdle /\ ComponentsIdle
    /\ jsonl_path \in BOOLEAN
    /\ has_on_progress \in BOOLEAN
    /\ pl_pc = "start"
    /\ result = InitialReport
    /\ started = <<>>
    /\ called = <<>>
    /\ raised = [st \in Stages |-> "no"]
    /\ events = <<>>
    /\ cb_swallowed = {}

NextPipeline ==
    /\ \/ PipelineStart
       \/ \E st \in Stages : InlineFatalStage(st)
       \/ \E st \in Stages : BatchFatalStage(st)
       \/ \E st \in Stages : BatchAdvisoryStage(st)
       \/ ThreadsStage
       \/ PipelineFinish
       \/ PipelineAgain
    /\ UNCHANGED <<guardVars, batchVars, threadVars, stageVars, scoreVars, digestVars, ccVars>>

SpecPipeline == InitPipeline /\ [][NextPipeline]_vars

InitBatch ==
    /\ GuardIdle /\ PipelineIdle /\ ThreadsIdle /\ StagesIdle /\ ScoreIdle /\ DigestIdle /\ ComponentsIdle
    /\ b_stage \in BatchStages
    /\ b_on_progress \in BOOLEAN
    /\ total \in 0..MaxItems
    /\ b_pc = "start"
    /\ b_result = ZeroResult
    /\ consecutive_failures = 0
    /\ outcomes = <<>>
    /\ persisted = <<>>
    /\ progress = <<>>
    /\ cb_raised = FALSE

NextBatch ==
    /\ \/ BatchStart
       \/ BatchItem
       \/ BatchReturn
    /\ UNCHANGED <<guardVars, pipeVars, threadVars, stageVars, scoreVars, digestVars, ccVars>>

SpecBatch == InitBatch /\ [][NextBatch]_vars

InitThreads == GuardIdle /\ PipelineIdle /\ BatchIdle /\ ThreadsIdle /\ StagesIdle /\ ScoreIdle /\ DigestIdle /\ ComponentsIdle

NextThreads ==
    /\ \/ DetectStart
       \/ ExtendAdd
       \/ ExtendUpdate
       \/ CreateThread
       \/ CreateAdd
       \/ DetectReturn
    /\ UNCHANGED <<guardVars, pipeVars, batchVars, stageVars, scoreVars, digestVars, ccVars>>

SpecThreads == InitThreads /\ [][NextThreads]_vars

InitStages == GuardIdle /\ PipelineIdle /\ BatchIdle /\ ThreadsIdle /\ StagesIdle /\ ScoreIdle /\ DigestIdle /\ ComponentsIdle

NextStages ==
    /\ \/ \E st \in StageBatches : StageBatchStart(st)
       \/ \E a \in StoredIds : RegenerateSummary(a)
       \/ StageBatchItem
    /\ UNCHANGED <<guardVars, pipeVars, batchVars, threadVars, scoreVars, digestVars, ccVars>>

SpecStages == InitStages /\ [][NextStages]_vars

InitScore ==
    /\ GuardIdle /\ PipelineIdle /\ BatchIdle /\ ThreadsIdle /\ StagesIdle
    /\ DigestIdle /\ ComponentsIdle
    /\ sc_raw \in [Dimensions -> RawValues]
    /\ sc_pc = "response"
    /\ sc_result = NoScoreResult
    /\ sc_row = NoScoreRow

NextScore ==
    /\ \/ ScoreArticle
       \/ UpdateRelevanceScores
    /\ UNCHANGED <<guardVars, pipeVars, batchVars, threadVars, stageVars, digestVars, ccVars>>

SpecScore == InitScore /\ [][NextScore]_vars

InitDigest == GuardIdle /\ PipelineIdle /\ BatchIdle /\ ThreadsIdle /\ StagesIdle /\ ScoreIdle /\ DigestIdle /\ ComponentsIdle

NextDigest ==
    /\ \/ \E s \in SchedInv : DigestTryStart(s)
       \/ \E s \in SchedInv : DigestRun(s)
       \/ \E s \in SchedInv : DigestFinish(s)
       \/ \E s \in SchedInv : DigestFire(s)
       \/ \E m \in ManualReq : TriggerDigest(m)
       \/ \E m \in ManualReq : DigestJobStart(m)
       \/ \E m \in ManualReq : DigestJobRun(m)
       \/ \E m \in ManualReq : DigestJobFinish(m)
       \/ \E m \in ManualReq : TriggerDigestAgain(m)
    /\ UNCHANGED <<pipeline_running, spc, sout, mpc>>
    /\ UNCHANGED <<pipeVars, batchVars, threadVars, stageVars, scoreVars, ccVars>>

SpecDigest == InitDigest /\ [][NextDigest]_vars

\* The symmetric adjacency maps over the nodes 1..NumNodes: a key for every
\* node that has an edge, in ascending or descending insertion order.
Nodes == 1..NumNodes
EdgeSets == SUBSET {p \in Nodes \X Nodes : p[1] < p[2]}
AdjacencyOf(edges) ==
    LET nbrs(n) == {m \in Nodes : <<n, m>> \in edges \/ <<m, n>> \in edges}
    IN  [n \in {x \in Nodes : nbrs(x) # {}} |-> nbrs(n)]
SymmetricGraphs ==
    UNION { { [keys |-> Ascending(DOMAIN AdjacencyOf(e)), adj |-> AdjacencyOf(e)],
              [keys |-> Descending(DOMAIN AdjacencyOf(e)), adj |-> AdjacencyOf(e)] }
            : e \in EdgeSets }

InitComponents ==
    /\ GuardIdle /\ PipelineIdle /\ BatchIdle /\ ThreadsIdle /\ StagesIdle
    /\ ScoreIdle /\ DigestIdle
    /\ cc_graph \in SymmetricGraphs
    /\ cc_pc = "outer"
    /\ cc_k = 1
    /\ cc_visited = {}
    /\ cc_component = {}
    /\ cc_queue = <<>>
    /\ cc_components = <<>>

NextComponents ==
    /\ \/ CCOuter
       \/ CCPop
       \/ CCAppend
       \/ CCReturn
    /\ UNCHANGED <<guardVars, pipeVars, batchVars, threadVars, stageVars, scoreVars,
                   digestVars>>

SpecComponents == InitComponents /\ [][NextComponents]_vars

\* The function keeps executing until it returns.
FairSpecComponents == SpecComponents /\ WF_vars(NextComponents)

----------------------------------------------------------------------------
(* Properties *)

\* The scheduled invocations that hold the flag: between setting it and
\* clearing it.
FlagHolders == {s \in SchedInv : spc[s] \in {"in_pipeline", "finally"}}

\* The failure classes the specification calls fatal.
FatalClass == {"CONNECTION", "MODEL_NOT_FOUND", "SERVER_ERROR"}

\* Number of failures at the end of a sequence of error types.
RECURSIVE TrailingFails(_)
TrailingFails(seq) ==
    IF seq = <<>> \/ seq[Len(seq)] = "NONE" THEN 0
    ELSE 1 + TrailingFails(SubSeq(seq, 1, Len(seq) - 1))

NoFatalOutcome == \A k \in 1..Len(outcomes) : outcomes[k] \notin FatalClass

\* C1: a manually triggered run and a scheduled run are never both inside
\* run_pipeline.
C1_NoManualScheduledOverlap ==
    ~ \E s \in SchedInv, m \in ManualReq :
          spc[s] = "in_pipeline" /\ mpc[m] = "in_pipeline"

\* C2: the check-and-set of the scheduled trigger is atomic: at most one
\* scheduled invocation holds the flag, the flag is set exactly while one
\* holds it, and so two scheduled invocations are never both in run_pipeline.
C2_AtomicCheckAndSet ==
    /\ Cardinality(FlagHolders) <= 1
    /\ pipeline_running <=> FlagHolders # {}
    /\ Cardinality({s \in SchedInv : spc[s] = "in_pipeline"}) <= 1

\* Two invocations raced: one runs the pipeline, the other skipped.
C2_Witness ==
    \E s, t \in SchedInv : spc[s] = "in_pipeline" /\ spc[t] = "skipped"

\* C3: every scheduled invocation that set the flag and entered run_pipeline
\* eventually reaches the end of its finally block with the flag cleared,
\* whatever run_pipeline did.
C3_FlagEventuallyCleared ==
    \A s \in SchedInv :
        (spc[s] = "in_pipeline") ~> (spc[s] = "done" /\ ~pipeline_running)

\* run_pipeline raised, and the invocation still cleared the flag.
C3_Witness ==
    \E s \in SchedInv : spc[s] = "done" /\ sout[s] = "raised" /\ ~pipeline_running

\* C4: an exception in a stage 1-5 makes run_pipeline return at once with
\* success false, error and finished_at set, and no later stage is started.
C4_FatalStageAborts ==
    \A st \in FatalStages :
        raised[st] # "no" =>
            /\ pl_pc = "returned"
            /\ result.success = FALSE
            /\ result.error # "None"
            /\ result.finished_at
            /\ \A k \in 1..Len(started) : StageIndex(started[k]) <= StageIndex(st)
            /\ \A k \in 1..Len(called) : StageIndex(called[k]) <= StageIndex(st)
            /\ \A t \in Stages : StageIndex(t) > StageIndex(st) => result.slots[t] = "None"

\* embed_batch raised: Score and the advisory stages were never started.
C4_Witness ==
    /\ raised["embed"] = "stage"
    /\ pl_pc = "returned"
    /\ started = <<"ingest", "compress", "summarize", "embed">>

\* C5: an exception in a stage 6-8 is recorded as an error in that stage's
\* slot, success stays true when no stage 1-5 failed, and every remaining
\* stage is still run (its function is called unless its own progress report
\* raised first).
C5_AdvisoryStageContinues ==
    (\A f \in FatalStages : raised[f] = "no") =>
        \A st \in AdvisoryStages :
            raised[st] # "no" =>
                /\ result.slots[st] = "error"
                /\ result.success = TRUE
                /\ result.error = "None"
                /\ pl_pc \in {NextPc(st)} \cup
                            {NextPc(t) : t \in {u \in Stages : StageIndex(u) > StageIndex(st)}}
                            \cup {"returned"}
                /\ pl_pc = "returned" =>
                      /\ started = StageOrder
                      /\ \A t \in Stages :
                            StageIndex(t) > StageIndex(st) /\ raised[t] # "cb_before"
                              => \E k \in 1..Len(called) : called[k] = t

\* All three advisory stages failed and the run still reports success.
C5_Witness ==
    /\ pl_pc = "returned"
    /\ \A st \in AdvisoryStages : raised[st] = "stage"
    /\ result.success = TRUE
    /\ result.finished_at

C7_ThirdConsecutiveFailureStops ==
    NoFatalOutcome =>
        /\ b_result.stopped_early <=> TrailingFails(outcomes) = 3
        /\ \A k \in 1..Len(outcomes) :
              k < Len(outcomes) => TrailingFails(SubSeq(outcomes, 1, k)) < 3
        /\ b_result.stopped_early => b_pc \in {"exit", "done"}
        /\ (b_pc = "done" /\ ~b_result.stopped_early) => Len(outcomes) = total

\* fail, fail, success, fail, fail, fail stops at the 6th of 7 items.
C7_Witness ==
    /\ b_pc = "done"
    /\ total = 7
    /\ outcomes = <<"TIMEOUT", "EMPTY_RESPONSE", "NONE", "TIMEOUT", "TIMEOUT", "EMPTY_RESPONSE">>
    /\ b_result.stopped_early

\* C8: a batch with no work items returns the zero result and calls neither
\* the operation, nor the write-back, nor the progress callback.
C8_EmptyBatchIsNoOp ==
    (total = 0 /\ b_pc # "start") =>
        /\ b_pc = "done"
        /\ b_result.succeeded = 0 /\ b_result.failed = 0
        /\ b_result.errors = <<>> /\ b_result.last_error = <<"None">>
        /\ b_result.stopped_early = FALSE
        /\ outcomes = <<>>
        /\ persisted = <<>>
        /\ progress = <<>>

\* An empty batch that was given a callback has returned.
C8_Witness == total = 0 /\ b_pc = "done" /\ b_on_progress

\* C9: on_progress(i + 1, total) has been called for every processed item,
\* the item that stopped the batch included.
C9_ProgressAfterEveryItem ==
    b_on_progress =>
        progress = [k \in 1..Len(outcomes) |-> <<k, total>>]

\* C10: with a callback that raises, the result, the write-backs, the
\* progress calls and the point where the batch stops are those of the run
\* over the same outcomes with a callback that never raises.
C10_RaisingCallbackChangesNothing ==
    b_pc # "start" =>
        LET ref == RunLoop(LoopStart, outcomes, 1, total, b_on_progress)
        IN  /\ b_result = ref.res
            /\ persisted = ref.persisted
            /\ progress = ref.progress
            /\ ref.res.succeeded + ref.res.failed = Len(outcomes)
            /\ b_pc = "loop" <=> (~ref.brk /\ Len(outcomes) < total)

\* A batch of several items ran to its end although a callback raised.
C10_Witness ==
    /\ b_pc = "done"
    /\ cb_raised
    /\ total >= 2
    /\ Len(outcomes) = total
    /\ Len(persisted) >= 1

\* Ids of the items whose operation returned success, in processing order.
RECURSIVE SuccessIds(_)
SuccessIds(outs) ==
    IF outs = <<>> THEN <<>>
    ELSE LET n == Len(outs)
             rest == SuccessIds(SubSeq(outs, 1, n - 1))
         IN  IF outs[n] = "NONE" THEN Append(rest, n) ELSE rest

IsPrefix(s, t) ==
    /\ Len(s) <= Len(t)
    /\ \A k \in 1..Len(s) : s[k] = t[k]

\* C11: exactly the items whose operation succeeded are written back, once
\* each and in order; after a failed item that does not trigger the stop
\* policy the batch goes on with the next item.
C11_PersistedIffSuccess ==
    /\ persisted = SuccessIds(outcomes)
    /\ ( /\ Len(outcomes) > 0
         /\ outcomes[Len(outcomes)] # "NONE"
         /\ outcomes[Len(outcomes)] \notin FatalClass
         /\ TrailingFails(outcomes) < 3
         /\ Len(outcomes) < total )
       => b_pc = "loop"

\* A failed item was skipped and the item after it was written back.
C11_Witness ==
    /\ b_pc = "done"
    /\ outcomes = <<"TIMEOUT", "NONE", "EMPTY_RESPONSE">>
    /\ persisted = <<2>>

\* C12: when Summarize, Embed or Score returns a result with stopped_early,
\* run_pipeline goes on to the next stage with success and error unchanged,
\* and a run that has returned after such a result has started that stage.
C12_StoppedEarlyDoesNotAbort ==
    /\ [](\A st \in {"summarize", "embed", "score"} :
            (result.slots[st] = "stopped" /\ pl_pc = "returned")
               => \E k \in 1..Len(started) : started[k] = NextPc(st))
    /\ [][\A st \in {"summarize", "embed", "score"} :
            (pl_pc = st /\ result'.slots[st] = "stopped")
               => /\ pl_pc' = NextPc(st)
                  /\ result'.success = result.success
                  /\ result'.error = result.error]_vars

\* All three batches stopped early and the run completed with success.
C12_Witness ==
    /\ pl_pc = "returned"
    /\ \A st \in {"summarize", "embed", "score"} : result.slots[st] = "stopped"
    /\ result.success = TRUE
    /\ result.error = "None"
    /\ started = StageOrder

\* C13: without a configured source path run_pipeline returns success false
\* with error set, starts no stage and leaves every stage slot empty.
C13_NoPathShortCircuits ==
    (~jsonl_path /\ pl_pc # "start") =>
        /\ pl_pc = "returned"
        /\ result.success = FALSE
        /\ result.error # "None"
        /\ started = <<>>
        /\ called = <<>>
        /\ \A st \in Stages : result.slots[st] = "None"

\* A run without a source path has returned.
C13_Witness == ~jsonl_path /\ pl_pc = "returned" /\ has_on_progress

\* C14: the stages started, and the stage functions called, are always a
\* prefix of the fixed order (so each at most once), and run_pipeline stands
\* before a stage only when exactly the stages before it have been started.
C14_StagesInOrder ==
    /\ IsPrefix(started, StageOrder)
    /\ IsPrefix(called, StageOrder)
    /\ Len(called) <= Len(started)
    /\ pl_pc \in Stages => Len(started) = StageIndex(pl_pc) - 1

\* A complete run: all eight stages, in order.
C14_Witness ==
    /\ pl_pc = "returned"
    /\ started = StageOrder
    /\ called = StageOrder

\* C15 as stated: the report's error is set only if a stage 1-5 failed.
C15_ErrorOnlyFromFatalStage ==
    result.error # "None" => \E st \in FatalStages : raised[st] # "no"

\* C15 amended: the report's error is set only if a stage 1-5 failed or no
\* source path was configured.
C15_ErrorOnlyFromFatalStageOrNoPath ==
    result.error # "None" =>
        \/ \E st \in FatalStages : raised[st] # "no"
        \/ ~jsonl_path

\* A returned report whose error comes from a failed Score stage.
C15_Witness ==
    /\ pl_pc = "returned"
    /\ result.error # "None"
    /\ jsonl_path
    /\ raised["score"] = "stage"

\* Number of articles of a cluster that are members of a thread.
Overlap(cluster, members) == Cardinality(cluster \cap members)

\* Every component of at least 5 articles found by a finished run was processed.
AllLargeComponentsLogged ==
    t_pc = "done" =>
        \A k \in 1..Len(t_components) :
            Cardinality(t_components[k]) >= 5 =>
                \E j \in 1..Len(t_log) : t_log[j].cluster = t_components[k]

\* C16: a processed cluster for which no stored thread has more than half of
\* the cluster's articles (exactly half included) adds exactly one thread,
\* whose members are the cluster, and changes no other thread.
C16_NoMatchCreatesOneThread ==
    /\ AllLargeComponentsLogged
    /\ \A k \in 1..Len(t_log) :
         LET e == t_log[k]
         IN  (\A t \in 1..Len(e.before) :
                 2 * Overlap(e.cluster, e.before[t]) <= Cardinality(e.cluster))
             => /\ e.kind = "create"
                /\ Len(e.after) = Len(e.before) + 1
                /\ e.after[Len(e.after)] = e.cluster
                /\ \A t \in 1..Len(e.before) : e.after[t] = e.before[t]

\* Component {3..8} against thread {1..5}: overlap 3/6, a second thread.
C16_Witness ==
    /\ t_pc = "done"
    /\ Len(t_log) = 1
    /\ t_log[1].cluster = 3..8
    /\ t_log[1].before = <<1..5>>
    /\ thread_members = <<1..5, 3..8>>

\* C17 as stated: every component found, whatever its size, that has more
\* than half of its articles in a thread existing before the run is afterwards
\* contained in such a thread.
C17_AnyComponentExtends ==
    t_pc = "done" =>
        \A k \in 1..Len(t_components) :
            LET c == t_components[k]
                matching == {t \in 1..Len(store_at_start) :
                               2 * Overlap(c, store_at_start[t]) > Cardinality(c)}
            IN  matching # {} => \E t \in matching : c \subseteq thread_members[t]

\* C17 amended: a processed cluster (a component of at least 5 articles) with
\* more than half of its articles in some stored thread extends one thread,
\* one with the largest overlap, to the union of its members and the cluster,
\* and changes nothing else.
C17_QualifyingComponentExtends ==
    /\ AllLargeComponentsLogged
    /\ \A k \in 1..Len(t_log) :
         LET e == t_log[k]
         IN  (\E t \in 1..Len(e.before) :
                 2 * Overlap(e.cluster, e.before[t]) > Cardinality(e.cluster))
             => /\ e.kind = "extend"
                /\ e.thread \in 1..Len(e.before)
                /\ 2 * Overlap(e.cluster, e.before[e.thread]) > Cardinality(e.cluster)
                /\ \A t \in 1..Len(e.before) :
                      Overlap(e.cluster, e.before[t]) <= Overlap(e.cluster, e.before[e.thread])
                /\ e.after = [e.before EXCEPT ![e.thread] = e.before[e.thread] \cup e.cluster]

\* Component {3..7} against thread {1..5}: overlap 3/5, the thread becomes {1..7}.
C17_Witness ==
    /\ t_pc = "done"
    /\ Len(t_log) = 1
    /\ t_log[1].cluster = 3..7
    /\ t_log[1].before = <<1..5>>
    /\ thread_members = <<1..7>>

\* C18: a run that finds the articles of the previous run unchanged returns
\* threads_created = 0 and threads_updated = 0.
C18_SecondRunReportsNothing ==
    (t_pc = "done" /\ t_unchanged) =>
        /\ t_result.threads_created = 0
        /\ t_result.threads_updated = 0

\* C19: throughout a run that finds the articles of the previous run
\* unchanged, the thread store is what it was when the run started: no thread
\* added, no member added or removed.
C19_SecondRunLeavesStore ==
    t_unchanged => thread_members = store_at_start

\* An unchanged run that matched a cluster against its thread has returned.
C19_Witness ==
    /\ t_pc = "done"
    /\ t_unchanged
    /\ Len(t_log) = 1
    /\ t_log[1].kind = "extend"
    /\ thread_members = <<1..6>>

\* C20: every cluster that is written to the store is a component of at least
\* 5 articles, the store changes only while or after such a cluster is
\* written, and a run whose components all have fewer than 5 articles leaves
\* the store as it was.
C20_OnlyLargeComponentsWrite ==
    /\ \A k \in 1..Len(t_log) :
         /\ Cardinality(t_log[k].cluster) >= 5
         /\ \E j \in 1..Len(t_components) : t_components[j] = t_log[k].cluster
    /\ t_cur.cluster # {} => Cardinality(t_cur.cluster) >= 5
    /\ thread_members # store_at_start => (t_cur.cluster # {} \/ t_log # <<>>)
    /\ (\A j \in 1..Len(t_components) : Cardinality(t_components[j]) < 5)
          => thread_members = store_at_start

\* Components {7,8} and {1..6}: only the second one becomes a thread.
C20_Witness ==
    /\ t_pc = "done"
    /\ t_components = <<7..8, 1..6>>
    /\ thread_members = <<1..6>>
    /\ t_result.articles_linked = 6

\* C21: in every state of the thread store every stored thread has at least
\* 5 members, the states between create_thread and add_articles_to_thread
\* included.
C21_ThreadsNeverBelowThreshold ==
    \A t \in 1..Len(thread_members) : Cardinality(thread_members[t]) >= 5

\* C22: no step removes a thread or a member of a thread, and the store at
\* any point of a run contains the store the run started with.
C22_ThreadsOnlyGrow ==
    /\ [](/\ Len(store_at_start) <= Len(thread_members)
          /\ \A t \in 1..Len(store_at_start) : store_at_start[t] \subseteq thread_members[t])
    /\ [][/\ Len(thread_members) <= Len(thread_members')
          /\ \A t \in 1..Len(thread_members) : thread_members[t] \subseteq thread_members'[t]]_vars

\* A run extended thread {1..5} and returned.
C22_Witness ==
    /\ t_pc = "done"
    /\ store_at_start = <<1..5>>
    /\ thread_members = <<1..8>>

\* The (at most) five stored articles nearest to article a, a itself left out.
NearestFive(links, a) ==
    LET others == SelectSeq(Ranking(links, a), LAMBDA id : id # a)
    IN  { others[k] : k \in 1..(IF Len(others) < 5 THEN Len(others) ELSE 5) }

\* Number of entity names, compared in lower case, that two articles share.
SharedEntities(links, a, b) ==
    Cardinality(LowerNames(links, a) \cap LowerNames(links, b))

Edge(a, b) == a \in DOMAIN t_graph /\ b \in t_graph[a]

NotEnriched == {a \in ArticleIds : ~t_articles[a].embedded \/ ~t_articles[a].extracted}

LowerOccurrences(links, cluster) ==
    LET occ == Occurrences(links, Ascending(cluster))
    IN  [k \in 1..Len(occ) |-> StripLower(occ[k])]

\* C25: the name given to every processed cluster is an entity whose count,
\* names compared in lower case, is the largest of the cluster; the primary
\* entities are at most 5 different entities in non-increasing order of that
\* count, the name first.
C25_NameIsMostFrequentEntity ==
    \A k \in 1..Len(t_log) :
        LET e == t_log[k]
            occ == LowerOccurrences(t_links, e.cluster)
            cnt(n) == CountOf(occ, StripLower(n))
            top == e.named.primary_entities
        IN  occ # <<>> =>
              /\ \A j \in 1..Len(occ) : cnt(occ[j]) <= cnt(e.named.name)
              /\ Len(top) <= 5
              /\ top[1] = e.named.name
              /\ \A i, j \in 1..Len(top) :
                    i < j => /\ cnt(top[i]) >= cnt(top[j])
                             /\ StripLower(top[i]) # StripLower(top[j])

\* C26: a stage batch never has among its work items an article that an
\* earlier call of the same stage's batch wrote back, and no stage's batch
\* writes the same article twice.
C26_EnrichedArticleNotReselected ==
    /\ \A k \in 1..Len(s_items) : s_items[k] \notin s_prior
    /\ \A st \in BatchStages : \A a \in StoredIds : s_writes[st][a] <= 1

\* A second score batch works on article 1 only: article 2 was scored by the
\* first one.
C26_Witness ==
    /\ s_pc = "loop"
    /\ s_stage = "score"
    /\ s_prior = {2}
    /\ s_items = <<1>>
    /\ art[1].summary

\* The tier of a composite score by the fixed thresholds.
TierOf(c) ==
    CASE c >= 15 -> 1
      [] c >= 10 /\ c < 15 -> 2
      [] c >= 5 /\ c < 10 -> 3
      [] c >= 1 /\ c < 5 -> 4
      [] OTHER -> 5

\* C27: the composite of every result is in 0..21 and its tier follows the
\* thresholds 15, 10, 5, 1; the tier stored with an article is the tier of
\* the sum of its seven stored dimension scores.
C27_TierByThresholds ==
    /\ sc_pc \in {"scored", "stored"} =>
          /\ sc_result.composite_score \in 0..21
          /\ sc_result.tier = TierOf(sc_result.composite_score)
          /\ sc_result.composite_score = 21 => sc_result.tier = 1
          /\ sc_result.composite_score = 9 => sc_result.tier = 3
          /\ sc_result.composite_score = 0 => sc_result.tier = 5
    /\ sc_pc = "stored" =>
          /\ Len(sc_row.d) = 7
          /\ sc_row.relevance_tier =
                TierOf(sc_row.d[1] + sc_row.d[2] + sc_row.d[3] + sc_row.d[4]
                         + sc_row.d[5] + sc_row.d[6] + sc_row.d[7])

\* A stored article with composite 15, the lowest of tier 1.
C27_Witness ==
    /\ sc_pc = "stored"
    /\ sc_row.d = <<3, 3, 3, 3, 3, 0, 0>>
    /\ sc_row.relevance_tier = 1

\* C28: convergence is true exactly when at least 5 of the 7 scores are 2 or
\* more.
C28_ConvergenceFiveOfSeven ==
    sc_pc \in {"scored", "stored"} =>
        /\ \A k \in 1..7 : sc_result.scores[k] \in 0..3
        /\ sc_result.convergence_flag
             <=> \E high \in SUBSET (1..7) :
                    /\ Cardinality(high) >= 5
                    /\ \A k \in high : sc_result.scores[k] >= 2
        /\ sc_result.scores = <<2, 2, 2, 2, 2, 1, 1>> => sc_result.convergence_flag
        /\ sc_result.scores = <<2, 2, 2, 2, 1, 1, 1>> => ~sc_result.convergence_flag

\* Five scores of 2 and two of 1: convergence.
C28_Witness ==
    /\ sc_pc = "scored"
    /\ sc_result.scores = <<2, 2, 2, 2, 2, 1, 1>>
    /\ sc_result.convergence_flag

\* C29: a scheduled invocation that finds the flag set goes straight to its
\* return, with the flag still set and run_pipeline not called; a skipped
\* invocation has never called run_pipeline, and nothing it does afterwards
\* changes the flag.
C29_SkippedInvocationLeavesFlag ==
    /\ [](\A s \in SchedInv : spc[s] = "skipped" => sout[s] = "none")
    /\ [][\A s \in SchedInv :
            /\ (spc[s] = "idle" /\ pipeline_running /\ spc'[s] # "idle")
                  => /\ spc'[s] = "skipped"
                     /\ pipeline_running'
                     /\ sout'[s] = "none"
            /\ (spc[s] = "skipped" /\ spc'[s] # "skipped")
                  => pipeline_running' = pipeline_running]_vars

\* Invocation 1 has skipped while invocation 2 is still inside run_pipeline.
C29_Witness ==
    /\ spc[1] = "skipped"
    /\ spc[2] = "in_pipeline"
    /\ pipeline_running

\* The invocations and requests that are inside generate_digest.
InGenerateDigest ==
    {<<"scheduled", s>> : s \in {x \in SchedInv : dspc[x] = "in_digest"}}
        \cup {<<"manual", m>> : m \in {x \in ManualReq : dmpc[x] = "in_digest"}}

\* C30: at most one scheduled digest invocation or manual digest job is inside
\* generate_digest at any time.
C30_AtMostOneDigest == Cardinality(InGenerateDigest) <= 1

\* The stored threads that hold more than half of a cluster's articles.
Matching(cluster, store) ==
    {t \in 1..Len(store) : 2 * Overlap(cluster, store[t]) > Cardinality(cluster)}

\* Position of a thread in the order in which the run read the threads.
PosInOrder(t) == CHOOSE k \in 1..Len(t_order) : t_order[k] = t

\* C31: a processed cluster that more than one stored thread matches extends
\* one of them, whose overlap no other thread exceeds and which was read
\* before every other thread of the same overlap; the store keeps its
\* number of threads and every other thread keeps its members.
C31_BestOfSeveralExtended ==
    \A k \in 1..Len(t_log) :
        LET e == t_log[k]
            m == Matching(e.cluster, e.before)
        IN  Cardinality(m) >= 2 =>
              /\ e.kind = "extend"
              /\ e.thread \in m
              /\ m \subseteq {t_order[i] : i \in 1..Len(t_order)}
              /\ \A t \in m \ {e.thread} :
                    \/ Overlap(e.cluster, e.before[t]) < Overlap(e.cluster, e.before[e.thread])
                    \/ /\ Overlap(e.cluster, e.before[t]) = Overlap(e.cluster, e.before[e.thread])
                       /\ PosInOrder(e.thread) < PosInOrder(t)
              /\ Len(e.after) = Len(e.before)
              /\ \A t \in 1..Len(e.before) : t # e.thread => e.after[t] = e.before[t]
              /\ e.after[e.thread] = e.before[e.thread] \cup e.cluster

\* Cluster {2..7} against threads {1..5} and {4..8}, four shared articles each:
\* the thread that was read first is the one extended.
C31_Witness ==
    /\ t_pc = "done"
    /\ Len(t_log) = 1
    /\ t_log[1].cluster = 2..7
    /\ t_log[1].before = <<1..5, 4..8>>
    /\ t_order = <<2, 1>>
    /\ thread_members = <<1..5, 2..8>>

\* Cluster {3..7} against threads {1..5} (three shared) and {4..8} (four).
C31_WitnessLargest ==
    /\ t_pc = "done"
    /\ Len(t_log) = 1
    /\ t_log[1].cluster = 3..7
    /\ t_log[1].before = <<1..5, 4..8>>
    /\ t_order = <<1, 2>>
    /\ thread_members = <<1..5, 3..8>>

\* C32: for every article of the working set, the entity neighbours found
\* through the inverted index are exactly the other articles of the working
\* set that have at least 2 lowercased entity names in common with it.
C32_EntityNeighborsExact ==
    \A a \in t_ws :
        find_entity_neighbors(t_links, a, build_entity_index(t_links, t_ws), 2)
            = {b \in t_ws \ {a} : SharedEntities(t_links, a, b) >= 2}

\* Articles 5 and 6 share three names, 6 and 7 only one: 5 is a neighbour of
\* 6 and 7 is not.
C32_Witness ==
    /\ t_pc = "done"
    /\ t_links = "split6"
    /\ {5, 6, 7} \subseteq t_ws
    /\ SharedEntities(t_links, 6, 7) = 1
    /\ 5 \in find_entity_neighbors(t_links, 6, build_entity_index(t_links, t_ws), 2)
    /\ 7 \notin find_entity_neighbors(t_links, 6, build_entity_index(t_links, t_ws), 2)

\* The nodes that a path of the adjacency map connects to a node of S.
RECURSIVE Reachable(_, _)
Reachable(adj, S) ==
    LET next == S \cup UNION {adj[x] : x \in S \cap DOMAIN adj}
    IN  IF next = S THEN S ELSE Reachable(adj, next)

\* C33: for a symmetric adjacency map the function returns; the components it
\* returns are not empty, every node of the map is in exactly one of them,
\* and two nodes are in the same component exactly when a path connects them.
C33_ComponentsPartitionByPaths ==
    /\ <>(cc_pc = "done")
    /\ [](cc_pc = "done" =>
            LET nodes == DOMAIN cc_graph.adj
                holding(n) == {k \in 1..Len(cc_components) : n \in cc_components[k]}
            IN  /\ \A k \in 1..Len(cc_components) :
                      cc_components[k] # {} /\ cc_components[k] \subseteq nodes
                /\ \A n \in nodes : Cardinality(holding(n)) = 1
                /\ \A a, b \in nodes :
                      (holding(a) = holding(b)) <=> (b \in Reachable(cc_graph.adj, {a})))

\* Edges 1 - 2 and 3 - 4, keys in descending order: two components.
C33_Witness ==
    /\ cc_pc = "done"
    /\ cc_graph.keys = <<4, 3, 2, 1>>
    /\ cc_graph.adj = (1 :> {2} @@ 2 :> {1} @@ 3 :> {4} @@ 4 :> {3})
    /\ cc_components = <<{3, 4}, {1, 2}>>

\* One component reached through a path: 1 - 2 - 3 - 4.
C33_WitnessPath ==
    /\ cc_pc = "done"
    /\ cc_graph.adj = (1 :> {2} @@ 2 :> {1, 3} @@ 3 :> {2, 4} @@ 4 :> {3})
    /\ cc_components = <<{1, 2, 3, 4}>>

\* The stages whose stage function was called and returned.
Executed == {st \in Stages : (\E k \in 1..Len(called) : called[k] = st)
                                /\ raised[st] \in {"no", "cb_after"}}

\* The on_progress calls that carry the label of a stage.
ReportsOf(st) == {k \in 1..Len(events) : events[k].label = st}

\* C34: in a run with a progress callback, every stage that executed has
\* reported with its own label before its execution and after it, and the
\* reports follow the order of the stages.
C34_EveryStageReportsBeforeAndAfter ==
    has_on_progress =>
        /\ \A st \in Executed :
              /\ \E k \in ReportsOf(st) : events[k].at = "before"
              /\ \E k \in ReportsOf(st) : events[k].at = "after"
        /\ \A i, j \in 1..Len(events) :
              i <= j => StageIndex(events[i].label) <= StageIndex(events[j].label)

\* The field a batch writes is already set in a row.
FieldSet(st, row) ==
    CASE st \in {"summarize", "resummarize"} -> row.summary
      [] st = "embed" -> row.embedded_at
      [] st = "score" -> row.scored_at
      [] st = "entities" -> row.entities_extracted_at
      [] st = "topics" -> row.topics_classified_at

\* C35: no batch, the context re-summarization batch included, writes an
\* enrichment field of an article in which that field is already set.
C35_FieldsWrittenOnce ==
    [][\A st \in StageBatches : \A a \in StoredIds :
          s_writes'[st][a] > s_writes[st][a] => ~FieldSet(st, art[a])]_vars

HandledIds ==
    {persisted[i] : i \in 1..Len(persisted)}
        \cup {b_result.errors[i][1] : i \in 1..Len(b_result.errors)}

\* C37: the result a batch returns counts every processed item once as
\* succeeded or failed, processes no more than the work items, has one error
\* per failure, and is stopped_early unless every work item was processed.
C37_ResultAccounting ==
    b_pc = "done" =>
        /\ b_result.succeeded + b_result.failed = Len(outcomes)
        /\ Len(outcomes) <= total
        /\ Len(persisted) = b_result.succeeded
        /\ Cardinality(HandledIds) = Len(outcomes)
        /\ HandledIds \subseteq 1..total
        /\ Len(b_result.errors) = b_result.failed
        /\ (~b_result.stopped_early => Len(outcomes) = total)

\* score_batch ran to the end of its work items with successes and failures
\* interleaved.
C37_Witness ==
    /\ b_pc = "done"
    /\ b_stage = "score"
    /\ ~b_result.stopped_early
    /\ total >= 4
    /\ b_result.succeeded >= 2
    /\ b_result.failed >= 2

\* The row carries an output of one of the stages 4-7.
HasEnrichment(row) ==
    \/ row.embedded_at
    \/ row.scored_at
    \/ row.entities_extracted_at
    \/ row.topics_classified_at

\* C38: in every state an article with an embedding, a relevance score,
\* entities or topics has a summary, and no step clears a summary.
C38_EnrichedImpliesSummarized ==
    /\ [](\A a \in StoredIds : HasEnrichment(art[a]) => art[a].summary)
    /\ [][\A a \in StoredIds : art[a].summary => art'[a].summary]_vars

\* One article was summarized, embedded and scored while the other has no
\* summary and no output of a later stage.
C38_Witness ==
    /\ s_pc = "idle"
    /\ \E a \in StoredIds :
         art[a].summary /\ art[a].embedded_at /\ art[a].scored_at
    /\ \E a \in StoredIds : ~art[a].summary /\ ~HasEnrichment(art[a])
    /\ \E st \in {"embed", "score"} : \E a \in StoredIds : s_writes[st][a] > 0

\* The trigger requests whose job thread is between setting and clearing
\* job_state["running"].
RunningJobs == {m \in ManualReq : mpc[m] \in {"in_pipeline", "finally"}}

\* C39: at most one manually triggered background job runs at a time; of two
\* requests that arrive while no job is running only one starts a job.
C39_AtMostOneManualJob == Cardinality(RunningJobs) <= 1

\* The stage whose try block was entered last.
LastStarted == started[Len(started)]

\* C40: an exception of the progress callback leaves the report of a batch
\* stage 3-7 as the batch returned it; in Ingest or Compress it fails the run
\* and no later stage is started; in DetectThreads it puts an error in the
\* threads slot, also when detect_threads had already returned.
C40_CallbackExceptionByStage ==
    /\ \A st \in cb_swallowed :
         /\ st \in BatchStages
         /\ raised[st] = "no" =>
              /\ result.slots[st] \in {"ok", "stopped"}
              /\ result.error # st
    /\ \A st \in {"ingest", "compress"} :
         raised[st] \in {"cb_before", "cb_after"} =>
              /\ ~result.success
              /\ result.error = st
              /\ pl_pc = "returned"
              /\ LastStarted = st
    /\ raised["threads"] \in {"cb_before", "cb_after"} =>
         /\ result.slots["threads"] = "error"
         /\ result.success
         /\ result.error = "None"
         /\ (raised["threads"] = "cb_after" =>
               \E k \in 1..Len(called) : called[k] = "threads")

\* A run in which the callback raised inside the embed batch, the run went
\* on, and the callback raised again after detect_threads had returned.
C40_Witness ==
    /\ pl_pc = "returned"
    /\ "embed" \in cb_swallowed
    /\ result.slots["embed"] = "ok"
    /\ raised["threads"] = "cb_after"
    /\ result.slots["threads"] = "error"
    /\ result.finished_at

\* A run in which the callback raised after compress_jsonl had returned.
C40_WitnessCompress ==
    /\ raised["compress"] = "cb_after"
    /\ result.slots["compress"] = "ok"
    /\ ~result.success
    /\ Len(started) = 2

====
